---- MODULE Spec2Model ----
(***************************************************************************)
(* Cluster metadata (services/meta Data) of influxdb-cluster as a state    *)
(* machine.  The variable data is the Data struct.  Every mutator of Data  *)
(* is an operator from a Data value and the call's arguments to the result *)
(* of the call, [data, err]: the Data it leaves and the error it returns   *)
(* (a set of results where the code's outcome depends on Go's map order).  *)
(* An action applies one call.  A property of a call is stated over every  *)
(* reachable Data and every argument of the model.                         *)
(*                                                                         *)
(* Times are integers counted from Go's zero time.Time, so that            *)
(* t.IsZero() is t = 0 and t.Truncate(d) is t - (t % d); one unit is half  *)
(* an hour, so that a duration below MinRetentionPolicyDuration exists.    *)
(***************************************************************************)
EXTENDS Integers, Sequences, FiniteSets, TLC

\* ------------------------------------------------------------------ bounds
\* Largest node ID the model allocates.
MaxNodes == 3
\* Largest shard-group ID the model allocates.
MaxGroups == 3
\* Largest raft index the consensus layer stores in Data.Index.
MaxIndex == 2
\* Number of timestamps of the model's time line, TimeBase .. MaxNanoTime.
TimeSpan == 3
\* Largest node ID allocated where the placement of groups in time is checked.
PlacementNodes == 1
\* Largest shard-group ID allocated where the owners of shards are checked.
OwnerGroups == 1
\* Largest node ID allocated where the allocation of IDs is checked.
ImportNodes == 2

\* ------------------------------------------------------------ constants
Hour == 2
Day == 24 * Hour
Week == 7 * Day
MinRetentionPolicyDuration == Hour
\* The first timestamp of the model's time line: a multiple of every
\* shard-group duration of the model, far from the zero time.
TimeBase == 2 * Week
\* models.MaxNanoTime on the model's time line.
MaxNanoTime == TimeBase + TimeSpan - 1
Times == TimeBase .. MaxNanoTime
\* time.Time{}
ZeroTime == 0
\* The wall clock reading of time.Now().
NowBase == TimeBase + 1

NilErr == "nil"

HTTPAddrs == {"h1", "h2"}
TCPAddrs == {"a", "b", "c"}
DBNames == {"db0"}
RPNames == {"rp0"}

VARIABLES data, now

\* The points writer of one node (coordinator.PointsWriter) and what runs
\* around it.
VARIABLES
    pw,         \* the PointsWriter struct: closing, AllowOutOfOrderWrites, subPoints, stats
    panicked,   \* a goroutine of the process has panicked
    localNodeID, \* MetaClient.NodeID(), the ID of the writer's own node
    subs,       \* the subscriber channels: the number of requests buffered in each
    calls,      \* the WritePoints calls made so far, in the order they were made
    shardTasks, \* the per-shard goroutines, keyed by <<call, shard ID>>
    ownerTasks, \* the per-owner goroutines, keyed by <<call, shard ID, owner's position>>
    hh,         \* the hinted-handoff queues, keyed by <<shard ID, node ID>>
    delivered   \* what each remote owner has received, keyed by <<shard ID, node ID>>

\* The lease table (meta.Leases) and the leases its callers were given.
VARIABLES leases, held

\* The writer's read-write lock (PointsWriter.mu) and the goroutines that
\* run the operations using it, each at a step of its operation.
VARIABLES mu, threads

writerVars == <<pw, panicked, localNodeID, subs, calls, shardTasks, ownerTasks, hh, delivered>>
leaseVars == <<leases, held>>
lockVars == <<mu, threads>>

vars == <<data, now, writerVars, leaseVars, lockVars>>

\* ----------------------------------------------------------------- helpers
Range(s) == {s[i] : i \in 1 .. Len(s)}

RemoveAt(s, i) == SubSeq(s, 1, i - 1) \o SubSeq(s, i + 1, Len(s))

Swap(s, i, j) == [s EXCEPT ![i] = s[j], ![j] = s[i]]

Min(a, b) == IF a < b THEN a ELSE b

\* Index of the first element of s satisfying the test, 0 if none.
FirstIndex(s, Test(_)) ==
    IF \E i \in 1 .. Len(s) : Test(s[i])
    THEN CHOOSE i \in 1 .. Len(s) : Test(s[i]) /\ \A j \in 1 .. i - 1 : ~Test(s[j])
    ELSE 0

\* Index of the last element of s satisfying the test, 0 if none.
LastIndex(s, Test(_)) ==
    IF \E i \in 1 .. Len(s) : Test(s[i])
    THEN CHOOSE i \in 1 .. Len(s) : Test(s[i]) /\ \A j \in i + 1 .. Len(s) : ~Test(s[j])
    ELSE 0

\* -------------------------------------------------------------------- Data
EmptyData ==
    [Term |-> 0, Index |-> 0, ClusterID |-> 0,
     MetaNodes |-> <<>>, DataNodes |-> <<>>, Databases |-> <<>>, Users |-> <<>>,
     adminUserExists |-> FALSE,
     MaxNodeID |-> 0, MaxShardGroupID |-> 0, MaxShardID |-> 0]

Result(d, e) == [data |-> d, err |-> e]

\* ------------------------------------------------------------------- nodes
NodeLess(a, b) == a.ID < b.ID

\* sort.Sort(NodeInfos(..)): for the short lists of the model Go sorts by
\* insertion, sinking each element while it is Less than its predecessor.
RECURSIVE SinkNode(_, _)
SinkNode(s, j) ==
    IF j > 1 /\ NodeLess(s[j], s[j - 1]) THEN SinkNode(Swap(s, j, j - 1), j - 1) ELSE s

RECURSIVE SortNodesFrom(_, _)
SortNodesFrom(s, i) ==
    IF i > Len(s) THEN s ELSE SortNodesFrom(SinkNode(s, i), i + 1)

SortNodes(s) == SortNodesFrom(s, 2)

\* The ID of the first node of the list with the TCP address, 0 if none.
IDByTCPAddr(nodes, tcpAddr) ==
    LET i == FirstIndex(nodes, LAMBDA n : n.TCPAddr = tcpAddr)
    IN IF i = 0 THEN 0 ELSE nodes[i].ID

CreateDataNode(d, addr, tcpAddr) ==
    IF \E n \in Range(d.DataNodes) : n.TCPAddr = tcpAddr
    THEN Result(d, "ErrNodeExists")
    ELSE LET found == IDByTCPAddr(d.MetaNodes, tcpAddr)
             maxID == IF found = 0 THEN d.MaxNodeID + 1 ELSE d.MaxNodeID
             existingID == IF found = 0 THEN maxID ELSE found
             node == [ID |-> existingID, Addr |-> addr, TCPAddr |-> tcpAddr]
         IN Result([d EXCEPT !.MaxNodeID = maxID,
                             !.DataNodes = SortNodes(Append(d.DataNodes, node))],
                   NilErr)

CreateMetaNode(d, httpAddr, tcpAddr) ==
    IF \E n \in Range(d.MetaNodes) : n.Addr = httpAddr
    THEN Result(d, "ErrNodeExists")
    ELSE LET found == IDByTCPAddr(d.DataNodes, tcpAddr)
             maxID == IF found = 0 THEN d.MaxNodeID + 1 ELSE d.MaxNodeID
             existingID == IF found = 0 THEN maxID ELSE found
             node == [ID |-> existingID, Addr |-> httpAddr, TCPAddr |-> tcpAddr]
         IN Result([d EXCEPT !.MaxNodeID = maxID,
                             !.MetaNodes = SortNodes(Append(d.MetaNodes, node))],
                   NilErr)

SetMetaNode(d, httpAddr, tcpAddr) ==
    IF Len(d.MetaNodes) > 1 THEN Result(d, "ErrTooManyMetaNodes")
    ELSE IF Len(d.MetaNodes) = 0 THEN CreateMetaNode(d, httpAddr, tcpAddr)
    ELSE Result([d EXCEPT !.MetaNodes[1].Addr = httpAddr,
                          !.MetaNodes[1].TCPAddr = tcpAddr],
                NilErr)

DeleteMetaNode(d, id) ==
    IF id = 0 THEN Result(d, "ErrNodeIDRequired")
    ELSE LET nodes == SelectSeq(d.MetaNodes, LAMBDA n : n.ID # id)
         IN IF Len(nodes) = Len(d.MetaNodes)
            THEN Result(d, "ErrNodeNotFound")
            ELSE Result([d EXCEPT !.MetaNodes = nodes], NilErr)

\* --------------------------------------------------- optional (pointer) values
None == <<>>
Some(v) == <<v>>
IsSet(o) == Len(o) > 0
Val(o) == o[1]

\* --------------------------------------------------------------- databases
MaxNameLen == 255
TooLongName == "name-of-256-characters"
NameLen(name) ==
    IF name = "" THEN 0 ELSE IF name = TooLongName THEN MaxNameLen + 1 ELSE 3

DatabaseIndex(d, name) == FirstIndex(d.Databases, LAMBDA di : di.Name = name)

PolicyIndex(di, name) == FirstIndex(di.RetentionPolicies, LAMBDA rp : rp.Name = name)

CreateDatabase(d, name) ==
    IF name = "" THEN Result(d, "ErrDatabaseNameRequired")
    ELSE IF NameLen(name) > MaxNameLen THEN Result(d, "ErrNameTooLong")
    ELSE IF DatabaseIndex(d, name) # 0 THEN Result(d, NilErr)
    ELSE Result([d EXCEPT !.Databases =
                    Append(d.Databases,
                           [Name |-> name, DefaultRetentionPolicy |-> "",
                            RetentionPolicies |-> <<>>])],
                NilErr)

\* ------------------------------------------------------- retention policies
shardGroupDuration(dur) ==
    IF dur >= 180 * Day \/ dur = 0 THEN Week
    ELSE IF dur >= 2 * Day THEN Day
    ELSE Hour

normalisedShardDuration(sgd, dur) ==
    IF sgd = 0 THEN shardGroupDuration(dur)
    ELSE IF sgd < MinRetentionPolicyDuration THEN shardGroupDuration(MinRetentionPolicyDuration)
    ELSE sgd

\* rpi: [Name, ReplicaN, Duration, ShardGroupDuration, ShardGroups].
CreateRetentionPolicy(d, database, rpi, makeDefault) ==
    IF rpi.Name = "" THEN Result(d, "ErrRetentionPolicyNameRequired")
    ELSE IF NameLen(rpi.Name) > MaxNameLen THEN Result(d, "ErrNameTooLong")
    ELSE IF rpi.ReplicaN < 1 THEN Result(d, "ErrReplicationFactorTooLow")
    ELSE
      LET sgd == normalisedShardDuration(rpi.ShardGroupDuration, rpi.Duration)
          new == [rpi EXCEPT !.ShardGroupDuration = sgd]
          i == DatabaseIndex(d, database)
      IN IF rpi.Duration > 0 /\ rpi.Duration < sgd THEN Result(d, "ErrIncompatibleDurations")
         ELSE IF i = 0 THEN Result(d, "ErrDatabaseNotFound")
         ELSE LET di == d.Databases[i]
                  j == PolicyIndex(di, rpi.Name)
              IN IF j # 0
                 THEN LET rp == di.RetentionPolicies[j]
                      IN IF \/ rp.ReplicaN # new.ReplicaN
                            \/ rp.Duration # new.Duration
                            \/ rp.ShardGroupDuration # new.ShardGroupDuration
                         THEN Result(d, "ErrRetentionPolicyExists")
                         ELSE IF makeDefault /\ di.DefaultRetentionPolicy # rpi.Name
                         THEN Result(d, "ErrRetentionPolicyConflict")
                         ELSE Result(d, NilErr)
                 ELSE Result(
                        [d EXCEPT !.Databases[i].RetentionPolicies = Append(@, new),
                                  !.Databases[i].DefaultRetentionPolicy =
                                      IF makeDefault THEN rpi.Name ELSE @],
                        NilErr)

\* "append(di.RetentionPolicies[:i], di.RetentionPolicies[i+1:]...)" for the
\* first policy of that name; the database's default name is left alone.
DropRetentionPolicy(d, database, name) ==
    LET i == DatabaseIndex(d, database)
    IN IF i = 0 THEN Result(d, NilErr)
       ELSE LET j == PolicyIndex(d.Databases[i], name)
            IN IF j = 0 THEN Result(d, NilErr)
               ELSE Result([d EXCEPT !.Databases[i].RetentionPolicies = RemoveAt(@, j)],
                           NilErr)

\* rpu: [Name, Duration, ReplicaN, ShardGroupDuration], each None or Some(v).
UpdateRetentionPolicy(d, database, name, rpu, makeDefault) ==
    LET i == DatabaseIndex(d, database)
    IN IF i = 0 THEN Result(d, "ErrDatabaseNotFound")
       ELSE
         LET di == d.Databases[i]
             j == PolicyIndex(di, name)
         IN IF j = 0 THEN Result(d, "ErrRetentionPolicyNotFound")
            ELSE
              LET rpi == di.RetentionPolicies[j]
              IN IF /\ IsSet(rpu.Name)
                    /\ Val(rpu.Name) # name
                    /\ PolicyIndex(di, Val(rpu.Name)) # 0
                 THEN Result(d, "ErrRetentionPolicyNameExists")
                 ELSE IF /\ IsSet(rpu.Duration)
                         /\ Val(rpu.Duration) < MinRetentionPolicyDuration
                         /\ Val(rpu.Duration) # 0
                 THEN Result(d, "ErrRetentionPolicyDurationTooLow")
                 ELSE IF \/ /\ IsSet(rpu.Duration)
                            /\ Val(rpu.Duration) > 0
                            /\ \/ /\ IsSet(rpu.ShardGroupDuration)
                                  /\ Val(rpu.Duration) < Val(rpu.ShardGroupDuration)
                               \/ /\ ~IsSet(rpu.ShardGroupDuration)
                                  /\ Val(rpu.Duration) < rpi.ShardGroupDuration
                         \/ /\ ~IsSet(rpu.Duration)
                            /\ rpi.Duration > 0
                            /\ IsSet(rpu.ShardGroupDuration)
                            /\ rpi.Duration < Val(rpu.ShardGroupDuration)
                 THEN Result(d, "ErrIncompatibleDurations")
                 ELSE
                   LET newName == IF IsSet(rpu.Name) THEN Val(rpu.Name) ELSE rpi.Name
                       newDur == IF IsSet(rpu.Duration) THEN Val(rpu.Duration) ELSE rpi.Duration
                       newRep == IF IsSet(rpu.ReplicaN) THEN Val(rpu.ReplicaN) ELSE rpi.ReplicaN
                       newSgd == IF IsSet(rpu.ShardGroupDuration)
                                 THEN normalisedShardDuration(Val(rpu.ShardGroupDuration), newDur)
                                 ELSE rpi.ShardGroupDuration
                       new == [rpi EXCEPT !.Name = newName, !.Duration = newDur,
                                          !.ReplicaN = newRep, !.ShardGroupDuration = newSgd]
                   IN Result(
                        [d EXCEPT !.Databases[i].RetentionPolicies[j] = new,
                                  !.Databases[i].DefaultRetentionPolicy =
                                      IF @ # newName /\ makeDefault THEN newName ELSE @],
                        NilErr)

\* ------------------------------------------------------------- shard groups
\* sgi: [ID, StartTime, EndTime, DeletedAt, TruncatedAt, Shards];
\* a shard: [ID, Owners], Owners the sequence of the owners' node IDs.
Deleted(sgi) == sgi.DeletedAt # ZeroTime

Truncated(sgi) == sgi.TruncatedAt # ZeroTime

\* Mutant of Contains: the start of the interval left out.
ContainsAfterStart(sgi, t) == t > sgi.StartTime /\ t < sgi.EndTime

Contains(sgi, t) == t >= sgi.StartTime /\ t < sgi.EndTime

\* The end of a group as Less and CreateShardGroup take it.
EffectiveEnd(sgi) == IF Truncated(sgi) THEN sgi.TruncatedAt ELSE sgi.EndTime

ShardGroupLess(a, b) ==
    IF EffectiveEnd(a) = EffectiveEnd(b)
    THEN a.StartTime < b.StartTime
    ELSE EffectiveEnd(a) < EffectiveEnd(b)

RECURSIVE SinkGroup(_, _)
SinkGroup(s, j) ==
    IF j > 1 /\ ShardGroupLess(s[j], s[j - 1]) THEN SinkGroup(Swap(s, j, j - 1), j - 1) ELSE s

RECURSIVE SortGroupsFrom(_, _)
SortGroupsFrom(s, i) ==
    IF i > Len(s) THEN s ELSE SortGroupsFrom(SinkGroup(s, i), i + 1)

SortGroups(s) == SortGroupsFrom(s, 2)

\* The test of RetentionPolicyInfo.ShardGroupByTimestamp.
Writable(sgi, t) ==
    Contains(sgi, t) /\ ~Deleted(sgi) /\ (~Truncated(sgi) \/ t < sgi.TruncatedAt)

\* Index of the group ShardGroupByTimestamp returns, 0 for nil.
ShardGroupByTimestamp(rpi, t) == FirstIndex(rpi.ShardGroups, LAMBDA g : Writable(g, t))

\* time.Time.Truncate
Truncate(t, dur) == IF dur <= 0 THEN t ELSE t - (t % dur)

ReplicaCount(replicaN, n) ==
    IF replicaN = 0 THEN 1 ELSE IF replicaN > n THEN n ELSE replicaN

\* The loop "for shardN*replicaN%len(data.DataNodes) != 0 { shardN++ }".
ShardCount(replicaN, n) ==
    CHOOSE k \in 1 .. n :
        /\ (k * replicaN) % n = 0
        /\ \A m \in 1 .. k - 1 : (m * replicaN) % n # 0

\* Mutant of WindowEnd: the end not clamped at MaxNanoTime+1.
WindowEndUnclamped(startTime, sgd) == startTime + sgd

WindowEnd(startTime, sgd) ==
    IF startTime + sgd > MaxNanoTime THEN MaxNanoTime + 1 ELSE startTime + sgd

\* Mutant of ShrinkStep: a truncated group taken to end at its EndTime.
ShrinkStepRawEnd(w, g, t) ==
    IF Deleted(g) THEN w
    ELSE LET s1 == IF t >= g.EndTime /\ g.EndTime > w.s THEN g.EndTime ELSE w.s
             e1 == IF g.StartTime > t /\ g.StartTime < w.e THEN g.StartTime ELSE w.e
         IN [s |-> s1, e |-> e1]

\* One round of the loop that fits the window w = [s, e] beside group g.
ShrinkStep(w, g, t) ==
    IF Deleted(g) THEN w
    ELSE LET startI == g.StartTime
             endI == EffectiveEnd(g)
             s1 == IF t >= endI /\ endI > w.s THEN endI ELSE w.s
             e1 == IF startI > t /\ startI < w.e THEN startI ELSE w.e
         IN [s |-> s1, e |-> e1]

RECURSIVE ShrinkWindow(_, _, _, _)
ShrinkWindow(w, groups, i, t) ==
    IF i > Len(groups) THEN w
    ELSE ShrinkWindow(ShrinkStep(w, groups[i], t), groups, i + 1, t)

\* Owners of the i-th shard (from 0) of a new group: round robin over the
\* data nodes starting at Index % n.
NewOwners(dataNodes, index, i, replicaN) ==
    LET n == Len(dataNodes)
    IN [j \in 1 .. replicaN |->
          dataNodes[(((index % n) + i * replicaN + (j - 1)) % n) + 1].ID]

NewShards(d, shardN, replicaN) ==
    [i \in 1 .. shardN |->
       [ID |-> d.MaxShardID + i,
        Owners |-> NewOwners(d.DataNodes, d.Index, i - 1, replicaN)]]

CreateShardGroup(d, database, policy, timestamp) ==
    IF Len(d.DataNodes) = 0 THEN Result(d, NilErr)
    ELSE
      LET i == DatabaseIndex(d, database)
      IN IF i = 0 THEN Result(d, "ErrDatabaseNotFound")
         ELSE
           LET j == PolicyIndex(d.Databases[i], policy)
           IN IF j = 0 THEN Result(d, "ErrRetentionPolicyNotFound")
              ELSE
                LET rpi == d.Databases[i].RetentionPolicies[j]
                IN IF ShardGroupByTimestamp(rpi, timestamp) # 0 THEN Result(d, NilErr)
                   ELSE
                     LET n == Len(d.DataNodes)
                         replicaN == ReplicaCount(rpi.ReplicaN, n)
                         shardN == ShardCount(replicaN, n)
                         start0 == Truncate(timestamp, rpi.ShardGroupDuration)
                         end0 == WindowEnd(start0, rpi.ShardGroupDuration)
                         w == ShrinkWindow([s |-> start0, e |-> end0],
                                           rpi.ShardGroups, 1, timestamp)
                         sgi == [ID |-> d.MaxShardGroupID + 1,
                                 StartTime |-> w.s, EndTime |-> w.e,
                                 DeletedAt |-> ZeroTime, TruncatedAt |-> ZeroTime,
                                 Shards |-> NewShards(d, shardN, replicaN)]
                     IN Result(
                          [d EXCEPT !.MaxShardGroupID = @ + 1,
                                    !.MaxShardID = @ + shardN,
                                    !.Databases[i].RetentionPolicies[j].ShardGroups =
                                        SortGroups(Append(@, sgi))],
                          NilErr)

DeleteShardGroup(d, database, policy, id, nowT) ==
    LET i == DatabaseIndex(d, database)
    IN IF i = 0 THEN Result(d, "ErrDatabaseNotFound")
       ELSE
         LET j == PolicyIndex(d.Databases[i], policy)
         IN IF j = 0 THEN Result(d, "ErrRetentionPolicyNotFound")
            ELSE
              LET k == FirstIndex(d.Databases[i].RetentionPolicies[j].ShardGroups,
                                  LAMBDA g : g.ID = id)
              IN IF k = 0 THEN Result(d, "ErrShardGroupNotFound")
                 ELSE Result(
                        [d EXCEPT !.Databases[i].RetentionPolicies[j].ShardGroups[k].DeletedAt
                                      = nowT],
                        NilErr)

\* Mutant of TruncateGroup: a group that starts after t is truncated at t.
TruncateGroupFutureAtT(sgi, t) ==
    IF t >= sgi.EndTime \/ Deleted(sgi) \/ (Truncated(sgi) /\ sgi.TruncatedAt < t)
    THEN sgi
    ELSE [sgi EXCEPT !.TruncatedAt = t]

\* Mutant of TruncateGroup: a group truncated before t is truncated again.
TruncateGroupAgain(sgi, t) ==
    IF t >= sgi.EndTime \/ Deleted(sgi) THEN sgi
    ELSE IF t <= sgi.StartTime
    THEN [sgi EXCEPT !.TruncatedAt = sgi.StartTime]
    ELSE [sgi EXCEPT !.TruncatedAt = t]

TruncateGroup(sgi, t) ==
    IF t >= sgi.EndTime \/ Deleted(sgi) \/ (Truncated(sgi) /\ sgi.TruncatedAt < t)
    THEN sgi
    ELSE IF t <= sgi.StartTime
    THEN [sgi EXCEPT !.TruncatedAt = sgi.StartTime]
    ELSE [sgi EXCEPT !.TruncatedAt = t]

\* Every shard group of every retention policy of every database truncated at t.
TruncateGroups(d, t) ==
    [d EXCEPT !.Databases =
        [i \in 1 .. Len(d.Databases) |->
           [d.Databases[i] EXCEPT !.RetentionPolicies =
              [j \in 1 .. Len(d.Databases[i].RetentionPolicies) |->
                 [d.Databases[i].RetentionPolicies[j] EXCEPT !.ShardGroups =
                    [k \in 1 .. Len(d.Databases[i].RetentionPolicies[j].ShardGroups) |->
                       TruncateGroup(d.Databases[i].RetentionPolicies[j].ShardGroups[k], t)]]]]]]

TruncateShardGroups(d, t) ==
    Result(TruncateGroups(d, t), NilErr)

\* ------------------------------------------------------------------ shards
TupleLess(p, q) ==
    \E i \in 1 .. Len(p) : p[i] < q[i] /\ \A j \in 1 .. i - 1 : p[j] = q[j]

LeastTuple(S) == CHOOSE p \in S : \A q \in S \ {p} : TupleLess(p, q)

\* <<database, policy, group>> indexes of every shard group.
GroupPaths(d) ==
    UNION {UNION {{<<i, j, k>> :
                     k \in 1 .. Len(d.Databases[i].RetentionPolicies[j].ShardGroups)} :
                  j \in 1 .. Len(d.Databases[i].RetentionPolicies)} :
           i \in 1 .. Len(d.Databases)}

GroupAt(d, p) == d.Databases[p[1]].RetentionPolicies[p[2]].ShardGroups[p[3]]

SetGroupAt(d, p, sgi) ==
    [d EXCEPT !.Databases[p[1]].RetentionPolicies[p[2]].ShardGroups[p[3]] = sgi]

ShardIndex(sgi, id) == FirstIndex(sgi.Shards, LAMBDA sh : sh.ID = id)

\* The group the nested loops of DropShard, CopyShardOwner and
\* RemoveShardOwner stop at: the first one holding a shard with the ID;
\* <<>> if there is none.
FindShard(d, id) ==
    LET holding == {p \in GroupPaths(d) : ShardIndex(GroupAt(d, p), id) # 0}
    IN IF holding = {} THEN <<>> ELSE LeastTuple(holding)

\* "append(shards[:found], shards[found+1:]...)" and the tombstone of a
\* group that loses its last shard.
RemoveShard(sgi, found, nowT) ==
    [sgi EXCEPT !.Shards = RemoveAt(@, found),
                !.DeletedAt = IF Len(sgi.Shards) = 1 THEN nowT ELSE @]

DropShard(d, id, nowT) ==
    LET p == FindShard(d, id)
    IN IF p = <<>> THEN Result(d, NilErr)
       ELSE LET sgi == GroupAt(d, p)
            IN Result(SetGroupAt(d, p, RemoveShard(sgi, ShardIndex(sgi, id), nowT)), NilErr)

\* The owner list after CopyShardOwner's insertion.
InsertOwner(owners, nodeID) ==
    IF \E i \in 1 .. Len(owners) : owners[i] = nodeID THEN owners
    ELSE LET nodeIdx == FirstIndex(owners, LAMBDA o : o > nodeID)
         IN IF nodeIdx # 0
            THEN SubSeq(owners, 1, nodeIdx - 1) \o <<nodeID>>
                 \o SubSeq(owners, nodeIdx, Len(owners))
            ELSE Append(owners, nodeID)

CopyShardOwner(d, id, nodeID) ==
    LET p == FindShard(d, id)
    IN IF p = <<>> THEN Result(d, NilErr)
       ELSE LET sgi == GroupAt(d, p)
                found == ShardIndex(sgi, id)
            IN Result(SetGroupAt(d, p,
                        [sgi EXCEPT !.Shards[found].Owners = InsertOwner(@, nodeID)]),
                      NilErr)

RemoveShardOwner(d, id, nodeID, nowT) ==
    LET p == FindShard(d, id)
    IN IF p = <<>> THEN Result(d, NilErr)
       ELSE LET sgi == GroupAt(d, p)
                found == ShardIndex(sgi, id)
                owners == sgi.Shards[found].Owners
                nodeIdx == FirstIndex(owners, LAMBDA o : o = nodeID)
                left == IF nodeIdx # 0 THEN RemoveAt(owners, nodeIdx) ELSE owners
                stripped == [sgi EXCEPT !.Shards[found].Owners = left]
            IN Result(SetGroupAt(d, p,
                        IF Len(left) = 0 THEN RemoveShard(stripped, found, nowT)
                        ELSE stripped),
                      NilErr)

\* ---------------------------------------------------------- DeleteDataNode
\* nodeOwnerFreqs: for every node owning a shard of the group, the number of
\* owner entries naming it.
OwnerFreqs(sgi) ==
    LET entries == UNION {{<<si, oi>> : oi \in 1 .. Len(sgi.Shards[si].Owners)} :
                          si \in 1 .. Len(sgi.Shards)}
        ids == {sgi.Shards[e[1]].Owners[e[2]] : e \in entries}
    IN [n \in ids |->
          Cardinality({e \in entries : sgi.Shards[e[1]].Owners[e[2]] = n})]

\* delete(nodeOwnerFreqs, id)
WithoutKey(f, id) == [n \in DOMAIN f \ {id} |-> f[n]]

\* Mutant of StripOwner: the first owner relinquishes instead of the deleted node.
StripFirstOwner(owners, id) ==
    IF \E i \in 1 .. Len(owners) : owners[i] = id THEN Tail(owners) ELSE owners

\* The owners of a shard once the deleted node has relinquished it.
StripOwner(owners, id) ==
    LET nodeIdx == LastIndex(owners, LAMBDA o : o = id)
    IN IF nodeIdx # 0 THEN RemoveAt(owners, nodeIdx) ELSE owners

\* newShardOwner: the nodes the range over the map may end on, which are the
\* ones with the least frequency (Go ranges over a map in no fixed order).
NewShardOwnerChoices(freqs) ==
    {n \in DOMAIN freqs : \A m \in DOMAIN freqs : freqs[n] <= freqs[m]}

\* The loop over orphanedShards from its k-th element on: the set of
\* [shards, err] it can end with.
RECURSIVE ReassignOrphans(_, _, _, _)
ReassignOrphans(shards, freqs, orphans, k) ==
    IF k > Len(orphans) THEN {[shards |-> shards, err |-> NilErr]}
    ELSE IF DOMAIN freqs = {} THEN {[shards |-> shards, err |-> "ErrLackOfDataNodes"]}
    ELSE UNION {
           LET si == FirstIndex(shards, LAMBDA sh : sh.ID = orphans[k])
           IN ReassignOrphans([shards EXCEPT ![si].Owners = Append(@, newOwnerID)],
                              [freqs EXCEPT ![newOwnerID] = @ + 1],
                              orphans, k + 1) :
           newOwnerID \in NewShardOwnerChoices(freqs)}

\* Mutant of DeleteNodeFromGroup: a group whose shards are all orphaned is
\* not tombstoned, its shards go to newShardOwner.
DeleteNodeFromGroupNoTombstone(sgi, id, nowT) ==
    LET stripped == [si \in 1 .. Len(sgi.Shards) |->
                       [sgi.Shards[si] EXCEPT !.Owners = StripOwner(@, id)]]
        orphaned == SelectSeq(stripped, LAMBDA sh : Len(sh.Owners) = 0)
        orphans == [k \in 1 .. Len(orphaned) |-> orphaned[k].ID]
    IN {[sg |-> [sgi EXCEPT !.Shards = r.shards], err |-> r.err] :
          r \in ReassignOrphans(stripped, WithoutKey(OwnerFreqs(sgi), id), orphans, 1)}

\* The body of the loop over the shard groups: the set of [sg, err].
DeleteNodeFromGroup(sgi, id, nowT) ==
    LET stripped == [si \in 1 .. Len(sgi.Shards) |->
                       [sgi.Shards[si] EXCEPT !.Owners = StripOwner(@, id)]]
        orphaned == SelectSeq(stripped, LAMBDA sh : Len(sh.Owners) = 0)
        orphans == [k \in 1 .. Len(orphaned) |-> orphaned[k].ID]
    IN IF Len(sgi.Shards) = 0 \/ Len(orphaned) = Len(sgi.Shards)
       THEN {[sg |-> [sgi EXCEPT !.Shards = stripped, !.DeletedAt = nowT],
              err |-> NilErr]}
       ELSE {[sg |-> [sgi EXCEPT !.Shards = r.shards], err |-> r.err] :
               r \in ReassignOrphans(stripped, WithoutKey(OwnerFreqs(sgi), id), orphans, 1)}

\* The nested loops over databases, policies and groups, from the groups
\* still to visit; an error returns at once and keeps what was written.
RECURSIVE DeleteNodeFromGroups(_, _, _, _)
DeleteNodeFromGroups(d, todo, id, nowT) ==
    IF todo = {} THEN {Result(d, NilErr)}
    ELSE LET p == LeastTuple(todo)
         IN UNION {
              IF o.err # NilErr THEN {Result(SetGroupAt(d, p, o.sg), o.err)}
              ELSE DeleteNodeFromGroups(SetGroupAt(d, p, o.sg), todo \ {p}, id, nowT) :
              o \in DeleteNodeFromGroup(GroupAt(d, p), id, nowT)}

\* The set of results DeleteDataNode can produce.
DeleteDataNode(d, id, nowT) ==
    LET nodes == SelectSeq(d.DataNodes, LAMBDA n : n.ID # id)
    IN IF Len(nodes) = Len(d.DataNodes) THEN {Result(d, "ErrNodeNotFound")}
       ELSE DeleteNodeFromGroups([d EXCEPT !.DataNodes = nodes], GroupPaths(d), id, nowT)

\* --------------------------------------------------------------- ImportData
\* shardIDMap[old] = new
MapPut(m, k, v) == [x \in DOMAIN m \cup {k} |-> IF x = k THEN v ELSE m[x]]

\* Mutant of RenumberShards: the shards keep the IDs and owners of the backup.
KeepShardIDs(shards, k, maxShardID, shardIDMap) ==
    [shards |-> shards, MaxShardID |-> maxShardID, shardIDMap |-> shardIDMap]

\* Mutant of RenumberShards: the shards get their new IDs and keep the
\* owners of the backup.
RenumberShardsKeepOwners(shards, k, maxShardID, shardIDMap) ==
    LET rest == k .. Len(shards)
        NewID(i) == maxShardID + (i - k + 1)
        old == {shards[i].ID : i \in rest}
    IN [shards |-> [i \in 1 .. Len(shards) |->
                      IF i \in rest THEN [shards[i] EXCEPT !.ID = NewID(i)]
                      ELSE shards[i]],
        MaxShardID |-> maxShardID + Cardinality(rest),
        shardIDMap |-> [x \in DOMAIN shardIDMap \cup old |->
                          IF x \in old
                          THEN NewID(CHOOSE i \in rest : shards[i].ID = x)
                          ELSE shardIDMap[x]]]

\* The loop over the shards of an imported group, from the k-th on.
RECURSIVE RenumberShards(_, _, _, _)
RenumberShards(shards, k, maxShardID, shardIDMap) ==
    IF k > Len(shards)
    THEN [shards |-> shards, MaxShardID |-> maxShardID, shardIDMap |-> shardIDMap]
    ELSE RenumberShards([shards EXCEPT ![k] = [ID |-> maxShardID + 1, Owners |-> <<>>]],
                        k + 1, maxShardID + 1,
                        MapPut(shardIDMap, shards[k].ID, maxShardID + 1))

\* The loop over the shard groups of an imported policy, from the j-th on;
\* acc: [MaxShardGroupID, MaxShardID, shardIDMap].
RECURSIVE RenumberGroups(_, _, _)
RenumberGroups(groups, j, acc) ==
    IF j > Len(groups) THEN [groups |-> groups, acc |-> acc]
    ELSE LET r == RenumberShards(groups[j].Shards, 1, acc.MaxShardID, acc.shardIDMap)
         IN RenumberGroups(
              [groups EXCEPT ![j] = [@ EXCEPT !.ID = acc.MaxShardGroupID + 1,
                                              !.Shards = r.shards]],
              j + 1,
              [MaxShardGroupID |-> acc.MaxShardGroupID + 1,
               MaxShardID |-> r.MaxShardID,
               shardIDMap |-> r.shardIDMap])

\* The loop over the imported policies, from the i-th on.
RECURSIVE RenumberPolicies(_, _, _)
RenumberPolicies(rps, i, acc) ==
    IF i > Len(rps) THEN [rps |-> rps, acc |-> acc]
    ELSE LET r == RenumberGroups(rps[i].ShardGroups, 1, acc)
         IN RenumberPolicies([rps EXCEPT ![i].ShardGroups = r.groups], i + 1, r.acc)

ImportResult(d, e, name, shardIDMap) ==
    [data |-> d, err |-> e, name |-> name, shardIDMap |-> shardIDMap]

importOneDB(d, other, backupDBName, restoreDBName, backupRPName, restoreRPName, shardIDMap) ==
    LET oi == DatabaseIndex(other, backupDBName)
        restoreDB == IF restoreDBName = "" THEN backupDBName ELSE restoreDBName
        created == CreateDatabase(d, restoreDB)
    IN IF oi = 0 THEN ImportResult(d, "ErrBackupDatabaseNotFound", "", shardIDMap)
       ELSE IF DatabaseIndex(d, restoreDB) # 0
       THEN ImportResult(d, "ErrDatabaseExists", "", shardIDMap)
       ELSE IF created.err # NilErr THEN ImportResult(created.data, created.err, "", shardIDMap)
       ELSE
         LET dbPtr == other.Databases[oi]
             di == DatabaseIndex(created.data, restoreDB)
             rj == PolicyIndex(dbPtr, backupRPName)
             restoreRP == IF restoreRPName = "" THEN backupRPName ELSE restoreRPName
             rps == IF backupRPName # ""
                    THEN <<[dbPtr.RetentionPolicies[rj] EXCEPT !.Name = restoreRP]>>
                    ELSE dbPtr.RetentionPolicies
             default == IF backupRPName # "" THEN restoreRP
                        ELSE dbPtr.DefaultRetentionPolicy
             r == RenumberPolicies(rps, 1,
                                   [MaxShardGroupID |-> d.MaxShardGroupID,
                                    MaxShardID |-> d.MaxShardID,
                                    shardIDMap |-> shardIDMap])
         IN IF backupRPName # "" /\ rj = 0
            THEN ImportResult(created.data, "ErrBackupPolicyNotFound", "", shardIDMap)
            ELSE ImportResult(
                   [created.data EXCEPT
                      !.Databases[di].RetentionPolicies = r.rps,
                      !.Databases[di].DefaultRetentionPolicy = default,
                      !.MaxShardGroupID = r.acc.MaxShardGroupID,
                      !.MaxShardID = r.acc.MaxShardID],
                   NilErr, restoreDB, r.acc.shardIDMap)

\* The loop of ImportData over the databases of the backup, from the i-th on.
RECURSIVE ImportAll(_, _, _, _, _)
ImportAll(d, other, i, shardIDMap, newDBs) ==
    IF i > Len(other.Databases)
    THEN [data |-> d, err |-> NilErr, shardIDMap |-> shardIDMap, newDBs |-> newDBs]
    ELSE IF other.Databases[i].Name = "_internal"
    THEN ImportAll(d, other, i + 1, shardIDMap, newDBs)
    ELSE LET r == importOneDB(d, other, other.Databases[i].Name, "", "", "", shardIDMap)
         IN IF r.err # NilErr
            THEN [data |-> r.data, err |-> r.err, shardIDMap |-> <<>>, newDBs |-> <<>>]
            ELSE ImportAll(r.data, other, i + 1, r.shardIDMap, Append(newDBs, r.name))

ImportData(d, other, backupDBName, restoreDBName, backupRPName, restoreRPName) ==
    IF backupDBName # ""
    THEN LET r == importOneDB(d, other, backupDBName, restoreDBName,
                              backupRPName, restoreRPName, <<>>)
         IN IF r.err # NilErr
            THEN [data |-> r.data, err |-> r.err, shardIDMap |-> <<>>, newDBs |-> <<>>]
            ELSE [data |-> r.data, err |-> NilErr, shardIDMap |-> r.shardIDMap,
                  newDBs |-> <<r.name>>]
    ELSE ImportAll(d, other, 1, <<>>, <<>>)

\* ------------------------------------------------- construction of services
\* &WriteStatistics{}
WriteStatistics ==
    [WriteReq |-> 0, PointWriteReq |-> 0, PointWriteReqLocal |-> 0,
     PointWriteReqRemote |-> 0, PointWriteReqHH |-> 0, WriteOK |-> 0,
     WritePartial |-> 0, WriteDropped |-> 0, WriteTimeout |-> 0, WriteErr |-> 0,
     SubWriteOK |-> 0, SubWriteDrop |-> 0]

\* NewPointsWriter(): the closing channel is made and open, there is no
\* subscriber.
NewPointsWriter ==
    [closing |-> "open", AllowOutOfOrderWrites |-> FALSE, subPoints |-> <<>>,
     stats |-> WriteStatistics]

\* The subscriber channels of the model: the nil channel, an unbuffered
\* channel and a channel with a buffer of one request.
NilChan == "nil"
ChanCap(c) == IF c = "buffered" THEN 1 ELSE 0
SubChans == {"unbuffered", "buffered"}

\* NewLeases(d): an empty table with the time to live d.
NewLeases(d) == [m |-> <<>>, d |-> d]

\* A writer just constructed on node 1, with no call made and nothing queued
\* or delivered, and an empty lease table.
WriterIdle ==
    /\ pw = NewPointsWriter
    /\ panicked = FALSE
    /\ localNodeID = 1
    /\ subs = [c \in SubChans |-> 0]
    /\ calls = <<>>
    /\ shardTasks = <<>>
    /\ ownerTasks = <<>>
    /\ hh = <<>>
    /\ delivered = <<>>

LeasesIdle ==
    /\ leases = NewLeases(Hour)
    /\ held = <<>>

\* Largest number of goroutines that use the lock of the writer at a time.
LockThreads == 2

\* The lock free and no operation on the writer under way.
LocksIdle ==
    /\ mu = [writer |-> None, readers |-> {}]
    /\ threads = [t \in 1 .. LockThreads |-> [op |-> "idle", pc |-> 0]]

\* ----------------------------------------------------------------- actions
Init ==
    /\ data = EmptyData
    /\ now = NowBase
    /\ WriterIdle
    /\ LeasesIdle
    /\ LocksIdle

\* One call of a mutator: the Data it leaves and the error it returns.
Call(results) ==
    \E r \in results :
        /\ r.data.MaxNodeID <= MaxNodes
        /\ r.data.MaxShardGroupID <= MaxGroups
        /\ data' = r.data
        /\ UNCHANGED <<now, writerVars, leaseVars, lockVars>>

CreateDataNodeStep(tcpAddrs) ==
    \E tcpAddr \in tcpAddrs :
        Call({CreateDataNode(data, "d", tcpAddr)})

CreateMetaNodeStep(httpAddrs, tcpAddrs) ==
    \E httpAddr \in httpAddrs, tcpAddr \in tcpAddrs :
        Call({CreateMetaNode(data, httpAddr, tcpAddr)})

SetMetaNodeStep(httpAddrs, tcpAddrs) ==
    \E httpAddr \in httpAddrs, tcpAddr \in tcpAddrs :
        Call({SetMetaNode(data, httpAddr, tcpAddr)})

DeleteMetaNodeStep(ids) ==
    \E id \in ids :
        Call({DeleteMetaNode(data, id)})

DeleteDataNodeStep(ids) ==
    \E id \in ids :
        Call(DeleteDataNode(data, id, now))

CreateDatabaseStep(names) ==
    \E name \in names :
        Call({CreateDatabase(data, name)})

CreateRetentionPolicyStep(rpis, defaults) ==
    \E rpi \in rpis, makeDefault \in defaults :
        Call({CreateRetentionPolicy(data, "db0", rpi, makeDefault)})

UpdateRetentionPolicyStep(rpus, defaults) ==
    \E rpu \in rpus, makeDefault \in defaults :
        Call({UpdateRetentionPolicy(data, "db0", "rp0", rpu, makeDefault)})

UpdateNamedRetentionPolicyStep(names, rpus, defaults) ==
    \E name \in names, rpu \in rpus, makeDefault \in defaults :
        Call({UpdateRetentionPolicy(data, "db0", name, rpu, makeDefault)})

DropRetentionPolicyStep(names) ==
    \E name \in names :
        Call({DropRetentionPolicy(data, "db0", name)})

CreateShardGroupStep(timestamps) ==
    \E timestamp \in timestamps :
        Call({CreateShardGroup(data, "db0", "rp0", timestamp)})

DeleteShardGroupStep(ids) ==
    \E id \in ids :
        Call({DeleteShardGroup(data, "db0", "rp0", id, now)})

TruncateShardGroupsStep(ts) ==
    \E t \in ts :
        Call({TruncateShardGroups(data, t)})

DropShardStep ==
    \E id \in 1 .. data.MaxShardID :
        Call({DropShard(data, id, now)})

CopyShardOwnerStep(nodeIDs) ==
    \E id \in 1 .. data.MaxShardID, nodeID \in nodeIDs :
        Call({CopyShardOwner(data, id, nodeID)})

RemoveShardOwnerStep(nodeIDs) ==
    \E id \in 1 .. data.MaxShardID, nodeID \in nodeIDs :
        Call({RemoveShardOwner(data, id, nodeID, now)})

ImportDataStep(others, backupDBNames, restoreDBNames, backupRPNames, restoreRPNames) ==
    \E other \in others, backupDBName \in backupDBNames, restoreDBName \in restoreDBNames,
       backupRPName \in backupRPNames, restoreRPName \in restoreRPNames :
        Call({ImportData(data, other, backupDBName, restoreDBName,
                         backupRPName, restoreRPName)})

\* The consensus layer stores the index of the applied log entry.
SetIndexStep ==
    /\ data.Index < MaxIndex
    /\ data' = [data EXCEPT !.Index = @ + 1]
    /\ UNCHANGED <<now, writerVars, leaseVars, lockVars>>

NodeIDs == 1 .. MaxNodes
GroupIDs == 1 .. MaxGroups
Policy(name, replicaN, dur, sgd) ==
    [Name |-> name, ReplicaN |-> replicaN, Duration |-> dur,
     ShardGroupDuration |-> sgd, ShardGroups |-> <<>>]
Update(name, dur, replicaN, sgd) ==
    [Name |-> name, Duration |-> dur, ReplicaN |-> replicaN, ShardGroupDuration |-> sgd]

\* ------------------------------------------------- the node lists (SpecNodes)
NCreateDataNode == CreateDataNodeStep(TCPAddrs)
NCreateMetaNode == CreateMetaNodeStep(HTTPAddrs, TCPAddrs)
NSetMetaNode == SetMetaNodeStep(HTTPAddrs, TCPAddrs)
NDeleteDataNode == DeleteDataNodeStep(NodeIDs)
NDeleteMetaNode == DeleteMetaNodeStep({0} \cup NodeIDs)

NextNodes ==
    \/ NCreateDataNode
    \/ NCreateMetaNode
    \/ NSetMetaNode
    \/ NDeleteDataNode
    \/ NDeleteMetaNode

SpecNodes == Init /\ [][NextNodes]_vars

\* ------------------------------- placement of shard groups in time (Spec)
PCreateDataNode == data.MaxNodeID < PlacementNodes /\ CreateDataNodeStep({"a", "b"})
PDeleteDataNode == DeleteDataNodeStep(1 .. PlacementNodes)
PCreateDatabase == CreateDatabaseStep({"db0"})
PCreateRetentionPolicy ==
    CreateRetentionPolicyStep({Policy("rp0", 1, 0, sgd) : sgd \in {Hour, Hour + 1}}, {FALSE})
PUpdateRetentionPolicy ==
    UpdateRetentionPolicyStep({Update(None, None, None, Some(sgd)) : sgd \in {Hour, Hour + 1}},
                              {FALSE})
PCreateShardGroup == CreateShardGroupStep(Times)
PDeleteShardGroup == DeleteShardGroupStep(GroupIDs)
PTruncateShardGroups == TruncateShardGroupsStep(Times)
PDropShard == DropShardStep
PRemoveShardOwner == RemoveShardOwnerStep(1 .. PlacementNodes)

Next ==
    \/ PCreateDataNode
    \/ PDeleteDataNode
    \/ PCreateDatabase
    \/ PCreateRetentionPolicy
    \/ PUpdateRetentionPolicy
    \/ PCreateShardGroup
    \/ PDeleteShardGroup
    \/ PTruncateShardGroups
    \/ PDropShard
    \/ PRemoveShardOwner

Spec == Init /\ [][Next]_vars

\* ------------------------------------------------------------------ claims
\* Every retention policy of a Data value.
Policies(d) ==
    UNION {{d.Databases[i].RetentionPolicies[j] :
              j \in 1 .. Len(d.Databases[i].RetentionPolicies)} :
           i \in 1 .. Len(d.Databases)}

Groups(rp) == Range(rp.ShardGroups)

LiveGroups(rp) == {g \in Groups(rp) : g.DeletedAt = ZeroTime}

\* Every time a group of the model can cover.
AllTimes == TimeBase .. MaxNanoTime + 1

\* A group is writable at t: startTime <= t < endTime, not deleted, and not
\* truncated or t < truncatedAt.
WritableAt(g, t) ==
    /\ g.DeletedAt = ZeroTime
    /\ g.StartTime <= t /\ t < g.EndTime
    /\ (g.TruncatedAt = ZeroTime \/ t < g.TruncatedAt)

\* The end of a group's effective interval.
EffEnd(g) == IF g.TruncatedAt # ZeroTime THEN g.TruncatedAt ELSE g.EndTime

\* C1: in every reachable state, for every retention policy and every time
\* t, at most one shard group (entry of the policy's list) is writable at t.
C1_AtMostOneWritable ==
    \A rp \in Policies(data) : \A t \in AllTimes :
        Cardinality({k \in 1 .. Len(rp.ShardGroups) : WritableAt(rp.ShardGroups[k], t)}) <= 1

\* C1 witness: a live group begins where a live truncated group was cut,
\* inside the truncated group's interval [startTime, endTime).
C1_Witness ==
    \E rp \in Policies(data) : \E g, h \in LiveGroups(rp) :
        /\ g.TruncatedAt # ZeroTime
        /\ g.StartTime < g.TruncatedAt
        /\ h.StartTime = g.TruncatedAt
        /\ h.TruncatedAt = ZeroTime
        /\ h.StartTime < h.EndTime

\* C2 as claimed: any two distinct non-deleted shard groups of a policy have
\* disjoint intervals [startTime, endTime).
C2_RawIntervalsDisjoint ==
    \A rp \in Policies(data) : \A g, h \in LiveGroups(rp) :
        g # h => (g.EndTime <= h.StartTime \/ h.EndTime <= g.StartTime)

\* C2 amended: any two distinct non-deleted shard groups of a policy have
\* disjoint effective intervals, the interval of a truncated group ending at
\* its truncatedAt: one of the two ends no later than the other starts.
C2_EffectiveIntervalsDisjoint ==
    \A rp \in Policies(data) : \A g, h \in LiveGroups(rp) :
        g # h => (EffEnd(g) <= h.StartTime \/ EffEnd(h) <= g.StartTime)

\* C2 witness: two live groups whose intervals [startTime, endTime) share a
\* time, one of them truncated.
C2_Witness ==
    \E rp \in Policies(data) : \E g, h \in LiveGroups(rp) :
        /\ g # h
        /\ g.StartTime < h.EndTime /\ h.StartTime < g.EndTime
        /\ g.TruncatedAt # ZeroTime

\* The result of CreateShardGroup on the model's policy.
Created(d, t) == CreateShardGroup(d, "db0", "rp0", t)

HasPolicy(d) ==
    /\ DatabaseIndex(d, "db0") # 0
    /\ PolicyIndex(d.Databases[DatabaseIndex(d, "db0")], "rp0") # 0

ThePolicy(d) ==
    LET di == d.Databases[DatabaseIndex(d, "db0")]
    IN di.RetentionPolicies[PolicyIndex(di, "rp0")]

\* The case of C3: a data node exists, the policy exists, no live group is
\* writable at t.
C3_Case(d, t) ==
    /\ Len(d.DataNodes) >= 1
    /\ HasPolicy(d)
    /\ \A g \in Groups(ThePolicy(d)) : ~WritableAt(g, t)

\* C3: in that case CreateShardGroup(db, rp, t) returns nil and appends
\* exactly one group, with startTime <= t < endTime <= MaxNanoTime+1 and
\* endTime - startTime <= shardGroupDuration, which ShardGroupByTimestamp(t)
\* then returns; with no data node it returns nil and changes nothing.
C3_CreatesTheGroupForT ==
    \A t \in Times :
        LET r == Created(data, t)
        IN /\ Len(data.DataNodes) = 0 => (r.err = NilErr /\ r.data = data)
           /\ C3_Case(data, t) =>
                LET old == ThePolicy(data)
                    new == ThePolicy(r.data)
                    k == ShardGroupByTimestamp(new, t)
                IN /\ r.err = NilErr
                   /\ Len(new.ShardGroups) = Len(old.ShardGroups) + 1
                   /\ \E g \in Groups(new) :
                        /\ g.ID = data.MaxShardGroupID + 1
                        /\ \A h \in Groups(old) : h.ID # g.ID
                        /\ Groups(new) = Groups(old) \cup {g}
                        /\ g.StartTime <= t /\ t < g.EndTime
                        /\ g.EndTime - g.StartTime <= old.ShardGroupDuration
                        /\ g.EndTime <= MaxNanoTime + 1
                        /\ k # 0
                        /\ new.ShardGroups[k] = g

\* C3 witness: the case holds for a time t next to a live group which the
\* new group's window has to make room for, and the new group is in place.
C3_Witness ==
    \E t \in Times :
        /\ C3_Case(data, t)
        /\ LiveGroups(ThePolicy(data)) # {}
        /\ \E g \in LiveGroups(ThePolicy(Created(data, t).data)) :
             /\ g.ID = data.MaxShardGroupID + 1
             /\ g.EndTime - g.StartTime < ThePolicy(data).ShardGroupDuration
             /\ g.EndTime <= MaxNanoTime

\* C4: CreateShardGroup(db, rp, t) called again with the same t changes
\* nothing: no group is added and no counter is bumped.
C4_CreateTwiceIsCreateOnce ==
    \A t \in Times :
        LET once == Created(data, t)
            twice == Created(once.data, t)
        IN twice.data = once.data /\ twice.err = once.err

\* C4 witness: the first call creates a group in a policy that holds a
\* tombstoned group and a truncated group covering t in [startTime, endTime).
C4_Witness ==
    \E t \in Times :
        /\ HasPolicy(data)
        /\ Created(data, t).data # data
        /\ \E g \in Groups(ThePolicy(data)) :
             g.DeletedAt # ZeroTime /\ g.StartTime <= t /\ t < g.EndTime
        /\ \E g \in LiveGroups(ThePolicy(data)) :
             g.TruncatedAt # ZeroTime /\ g.StartTime <= t /\ t < g.EndTime

\* ---------------------------------------------------------------- node IDs
DataNodeSet(d) == {d.DataNodes[i] : i \in 1 .. Len(d.DataNodes)}
MetaNodeSet(d) == {d.MetaNodes[i] : i \in 1 .. Len(d.MetaNodes)}
UniqueIDs(nodes) ==
    \A i, j \in 1 .. Len(nodes) : nodes[i].ID = nodes[j].ID => i = j

\* C7: in every state reachable by CreateDataNode, CreateMetaNode,
\* SetMetaNode, DeleteDataNode and DeleteMetaNode every node has id > 0, and
\* a data node and a meta node with the same tcpAddr have the same id.
\* The code breaks it: CreateMetaNode refuses a second node only by its HTTP
\* address, and SetMetaNode rewrites tcpAddr without touching the id.
C7_SameAddrSameID ==
    /\ \A n \in DataNodeSet(data) \cup MetaNodeSet(data) : n.ID > 0
    /\ \A dn \in DataNodeSet(data), mn \in MetaNodeSet(data) :
          dn.TCPAddr = mn.TCPAddr => dn.ID = mn.ID

\* C8: after any sequence of CreateDataNode, CreateMetaNode, SetMetaNode,
\* DeleteDataNode and DeleteMetaNode no two data nodes share an ID and no
\* two meta nodes share an ID.  The code breaks it: a node created at the
\* tcpAddr of a node of the other list takes that node's ID, also when its
\* own list already holds that ID.
C8_NodeIDsUnique ==
    /\ UniqueIDs(data.DataNodes)
    /\ UniqueIDs(data.MetaNodes)

\* ------------------------------------------- owners of shards (SpecOwners)
\* The k-th data node joins from the k-th address.
OwnerAddrs == <<"a", "b", "c", "d">>
OCreateDataNode ==
    /\ data.MaxNodeID < Len(OwnerAddrs)
    /\ CreateDataNodeStep({OwnerAddrs[data.MaxNodeID + 1]})
ODeleteDataNode == DeleteDataNodeStep(NodeIDs)
OSetIndex == SetIndexStep
OCreateDatabase == CreateDatabaseStep(DBNames)
OCreateRetentionPolicy ==
    CreateRetentionPolicyStep({Policy("rp0", replicaN, 0, Hour) : replicaN \in {2}}, {FALSE})
OUpdateRetentionPolicy ==
    UpdateRetentionPolicyStep({Update(None, None, Some(replicaN), None) :
                                 replicaN \in {-1, 0, 1}},
                              {FALSE})
OCreateShardGroup ==
    data.MaxShardGroupID < OwnerGroups /\ CreateShardGroupStep({TimeBase})
OCopyShardOwner == CopyShardOwnerStep({1})
ORemoveShardOwner == RemoveShardOwnerStep({1})

NextOwners ==
    \/ OCreateDataNode
    \/ ODeleteDataNode
    \/ OSetIndex
    \/ OCreateDatabase
    \/ OCreateRetentionPolicy
    \/ OUpdateRetentionPolicy
    \/ OCreateShardGroup
    \/ OCopyShardOwner
    \/ ORemoveShardOwner

SpecOwners == Init /\ [][NextOwners]_vars

\* ------------------------------------------------- owners of a new group
\* replicaN' = min(max(replicaN, 1), n)
ClampedReplicaN(replicaN, n) ==
    LET atLeastOne == IF replicaN < 1 THEN 1 ELSE replicaN
    IN IF atLeastOne > n THEN n ELSE atLeastOne

\* The smallest positive shardN with shardN * replicaN' = 0 (mod n).
EvenShardN(replicaN, n) ==
    CHOOSE k \in 1 .. n :
        /\ (k * replicaN) % n = 0
        /\ \A m \in 1 .. k - 1 : (m * replicaN) % n # 0

GroupByID(rp, id) == CHOOSE g \in Groups(rp) : g.ID = id

OwnersOf(g, i) == Range(g.Shards[i].Owners)

\* The number of shards of g that node id owns.
OwnedBy(g, id) == Cardinality({i \in 1 .. Len(g.Shards) : id \in OwnersOf(g, i)})

\* C5: with n >= 1 data nodes of distinct IDs and replicaN' =
\* min(max(replicaN,1), n), a group created by CreateShardGroup has the
\* least shardN with shardN*replicaN' = 0 (mod n) shards, the j-th owner of
\* shard i is dataNodes[(Index + i*replicaN' + j) mod n], every shard has
\* exactly replicaN' distinct owners and every data node owns
\* shardN*replicaN'/n shards.  The code breaks it for a negative replicaN,
\* which UpdateRetentionPolicy stores: the shards get no owner.
C5_RoundRobinOwners ==
    \A t \in Times :
        (C3_Case(data, t) /\ UniqueIDs(data.DataNodes)) =>
            LET n == Len(data.DataNodes)
                replicaN == ClampedReplicaN(ThePolicy(data).ReplicaN, n)
                shardN == EvenShardN(replicaN, n)
                g == GroupByID(ThePolicy(Created(data, t).data), data.MaxShardGroupID + 1)
            IN /\ Len(g.Shards) = shardN
               /\ \A i \in 0 .. shardN - 1 :
                    /\ Len(g.Shards[i + 1].Owners) = replicaN
                    /\ Cardinality(OwnersOf(g, i + 1)) = replicaN
                    /\ \A j \in 0 .. replicaN - 1 :
                         g.Shards[i + 1].Owners[j + 1] =
                             data.DataNodes[((data.Index + i * replicaN + j) % n) + 1].ID
               /\ \A node \in DataNodeSet(data) :
                    OwnedBy(g, node.ID) * n = shardN * replicaN

\* --------------------------------------------- DeleteDataNode(N2) of three
\* The only shard group of a Data value with one database and one policy.
TheGroup(d) == d.Databases[1].RetentionPolicies[1].ShardGroups[1]

ShardOwnedBy(g, owners) == CHOOSE i \in 1 .. Len(g.Shards) : OwnersOf(g, i) = owners

\* The cluster {N1,N2,N3} with one group of three shards owned by {N1,N2},
\* {N2,N3} and {N1,N3}.
ThreeNodeScenario(d) ==
    /\ Len(d.DataNodes) = 3
    /\ {n.ID : n \in DataNodeSet(d)} = {1, 2, 3}
    /\ Len(d.Databases) = 1
    /\ Len(d.Databases[1].RetentionPolicies) = 1
    /\ Len(d.Databases[1].RetentionPolicies[1].ShardGroups) = 1
    /\ Len(TheGroup(d).Shards) = 3
    /\ \A i \in 1 .. 3 : Len(TheGroup(d).Shards[i].Owners) = 2
    /\ {OwnersOf(TheGroup(d), i) : i \in 1 .. 3} = {{1, 2}, {2, 3}, {1, 3}}

CountsDifferByAtMostOne(g) ==
    /\ OwnedBy(g, 1) - OwnedBy(g, 3) <= 1
    /\ OwnedBy(g, 3) - OwnedBy(g, 1) <= 1

\* C10 as stated: in that cluster DeleteDataNode(N2) makes S1 and S2 lose N2
\* and get a new owner each, so that each keeps two owners, and afterwards
\* the shard counts of N1 and N3 differ by at most 1.
C10_EachShardKeepsTwoOwners ==
    ThreeNodeScenario(data) =>
        \A r \in DeleteDataNode(data, 2, now) :
            LET g == TheGroup(data)
                h == TheGroup(r.data)
            IN /\ r.err = NilErr
               /\ \A owners \in {{1, 2}, {2, 3}} :
                    LET s == h.Shards[ShardOwnedBy(g, owners)]
                    IN /\ Len(s.Owners) = 2
                       /\ Range(s.Owners) \subseteq {1, 3}
               /\ CountsDifferByAtMostOne(h)

\* C10 as the code has it: S1 and S2 lose N2 and, having an owner left, get
\* no new one (S1 = <<N1>>, S2 = <<N3>>), S3 is untouched, N2 leaves the
\* node list, and the shard counts of N1 and N3 differ by at most 1.
C10_OnlyOrphansGetNewOwners ==
    ThreeNodeScenario(data) =>
        \A r \in DeleteDataNode(data, 2, now) :
            LET g == TheGroup(data)
                h == TheGroup(r.data)
                s3 == ShardOwnedBy(g, {1, 3})
            IN /\ r.err = NilErr
               /\ {n.ID : n \in DataNodeSet(r.data)} = {1, 3}
               /\ h.Shards[ShardOwnedBy(g, {1, 2})].Owners = <<1>>
               /\ h.Shards[ShardOwnedBy(g, {2, 3})].Owners = <<3>>
               /\ h.Shards[s3] = g.Shards[s3]
               /\ h.DeletedAt = g.DeletedAt
               /\ CountsDifferByAtMostOne(h)

\* C10 witness: the state DeleteDataNode(N2) leaves in that cluster.
C10_Witness ==
    /\ {n.ID : n \in DataNodeSet(data)} = {1, 3}
    /\ Len(data.Databases) = 1
    /\ Len(data.Databases[1].RetentionPolicies) = 1
    /\ Len(data.Databases[1].RetentionPolicies[1].ShardGroups) = 1
    /\ Len(TheGroup(data).Shards) = 3
    /\ {TheGroup(data).Shards[i].Owners : i \in 1 .. 3} \in
          {{<<1>>, <<3>>, <<1, 3>>}, {<<1>>, <<3>>, <<3, 1>>}}

\* ------------------- nodes that are data node and meta node (SpecShared)
SCreateMetaNode == CreateMetaNodeStep({"h1"}, {"a", "b"})
SSetMetaNode == SetMetaNodeStep({"h1"}, {"a", "b"})
SCreateDataNode == CreateDataNodeStep({"a", "b"})
SDeleteDataNode == DeleteDataNodeStep(NodeIDs)
SCreateDatabase == CreateDatabaseStep(DBNames)
SCreateRetentionPolicy ==
    CreateRetentionPolicyStep({Policy("rp0", replicaN, 0, Hour) : replicaN \in {1, 2}}, {FALSE})
SCreateShardGroup ==
    data.MaxShardGroupID < OwnerGroups /\ CreateShardGroupStep({TimeBase})

NextShared ==
    \/ SCreateMetaNode
    \/ SSetMetaNode
    \/ SCreateDataNode
    \/ SDeleteDataNode
    \/ SCreateDatabase
    \/ SCreateRetentionPolicy
    \/ SCreateShardGroup

SpecShared == Init /\ [][NextShared]_vars

\* Every shard group of a Data value.
AllGroups(d) == UNION {Groups(rp) : rp \in Policies(d)}

\* C9: after a successful DeleteDataNode(n), n is not in the data-node list
\* and owns no shard of any database, policy or group, and in every group
\* of which not all shards became orphaned every shard has an owner.  The
\* code breaks it when two data nodes carry the ID n (C8): a shard then
\* names n twice and only one of the two entries is removed.
C9_DeletedNodeOwnsNothing ==
    \A id \in NodeIDs :
        \A r \in DeleteDataNode(data, id, now) :
            r.err = NilErr =>
                /\ \A n \in DataNodeSet(r.data) : n.ID # id
                /\ \A g \in AllGroups(r.data) :
                     /\ \A i \in 1 .. Len(g.Shards) : id \notin OwnersOf(g, i)
                     /\ \/ \A i \in 1 .. Len(g.Shards) : Len(g.Shards[i].Owners) = 0
                        \/ \A i \in 1 .. Len(g.Shards) : Len(g.Shards[i].Owners) >= 1

\* ------------------------------------------- allocation of IDs (SpecImport)
\* The metadata of a backup: one data node, database db1 with policy rp0 and
\* one shard group, whose IDs start at 1 like those of the target.
Backup ==
    LET d1 == CreateDataNode(EmptyData, "d", "a").data
        d2 == CreateDatabase(d1, "db1").data
        d3 == CreateRetentionPolicy(d2, "db1", Policy("rp0", 1, 0, Hour), TRUE).data
    IN CreateShardGroup(d3, "db1", "rp0", TimeBase).data

ICreateDataNode ==
    /\ data.MaxNodeID < ImportNodes
    /\ CreateDataNodeStep({OwnerAddrs[data.MaxNodeID + 1]})
IDeleteDataNode == DeleteDataNodeStep(1 .. ImportNodes)
ICreateDatabase == CreateDatabaseStep(DBNames)
ICreateRetentionPolicy ==
    CreateRetentionPolicyStep({Policy("rp0", 1, 0, Hour)}, {FALSE})
ICreateShardGroup == CreateShardGroupStep({TimeBase})
IImportData == ImportDataStep({data, Backup}, {"", "db0"}, {"", "db1"}, {"", "rp0"}, {""})
IDropShard == DropShardStep
ICopyShardOwner == CopyShardOwnerStep({1})
IRemoveShardOwner == RemoveShardOwnerStep({1})

NextImport ==
    \/ ICreateDataNode
    \/ IDeleteDataNode
    \/ ICreateDatabase
    \/ ICreateRetentionPolicy
    \/ ICreateShardGroup
    \/ IImportData
    \/ IDropShard
    \/ ICopyShardOwner
    \/ IRemoveShardOwner

SpecImport == Init /\ [][NextImport]_vars

\* The shards of a Data value, as <<group ID, position, shard ID>>.
ShardEntries(d) ==
    UNION {{<<g.ID, i, g.Shards[i].ID>> : i \in 1 .. Len(g.Shards)} : g \in AllGroups(d)}

ShardIDs(d) == {e[3] : e \in ShardEntries(d)}

\* The shard groups of a Data value, as <<database, policy, position, ID>>.
GroupEntries(d) ==
    {<<p[1], p[2], p[3], GroupAt(d, p).ID>> : p \in GroupPaths(d)}

GroupIDsOf(d) == {e[4] : e \in GroupEntries(d)}

IDsDistinctAndBounded(d) ==
    /\ \A e, f \in GroupEntries(d) : e[4] = f[4] => e = f
    /\ \A e, f \in ShardEntries(d) : e[3] = f[3] => e = f
    /\ \A id \in GroupIDsOf(d) : id <= d.MaxShardGroupID
    /\ \A id \in ShardIDs(d) : id <= d.MaxShardID

\* C6: in every state reachable by CreateShardGroup, ImportData, DropShard,
\* RemoveShardOwner, CopyShardOwner and DeleteDataNode the shard IDs are
\* pairwise distinct, the shard-group IDs are pairwise distinct, every shard
\* ID is <= maxShardID and every group ID <= maxShardGroupID; every newly
\* allocated ID is greater than every ID allocated before it, and maxNodeID,
\* maxShardGroupID and maxShardID never decrease.
C6_IDsFreshAndUnique ==
    [][/\ IDsDistinctAndBounded(data')
       /\ data'.MaxNodeID >= data.MaxNodeID
       /\ data'.MaxShardGroupID >= data.MaxShardGroupID
       /\ data'.MaxShardID >= data.MaxShardID
       /\ \A id \in GroupIDsOf(data') \ GroupIDsOf(data) : id > data.MaxShardGroupID
       /\ \A id \in ShardIDs(data') \ ShardIDs(data) : id > data.MaxShardID
       /\ \A n \in DataNodeSet(data') \ DataNodeSet(data) : n.ID > data.MaxNodeID]_vars

\* C6 witness: a database imported from a backup stands beside the
\* database of the cluster, both with shards, after a shard was dropped.
C6_Witness ==
    /\ DatabaseIndex(data, "db0") # 0
    /\ DatabaseIndex(data, "db1") # 0
    /\ \A i \in 1 .. 2 :
         \E rp \in Range(data.Databases[i].RetentionPolicies) :
            \E g \in Groups(rp) : Len(g.Shards) > 0
    /\ Cardinality(ShardIDs(data)) < data.MaxShardID

\* ------------------------------------------ DeleteDataNode of the last node
\* Node id is the only data node and owns a shard of some group.
LastNodeCase(d, id) ==
    /\ Len(d.DataNodes) = 1
    /\ d.DataNodes[1].ID = id
    /\ \E g \in AllGroups(d) : \E i \in 1 .. Len(g.Shards) : id \in OwnersOf(g, i)

\* The groups of d of which node id is the only owner.
SolelyOwned(d, id) ==
    {p \in GroupPaths(d) :
        /\ Len(GroupAt(d, p).Shards) > 0
        /\ \A i \in 1 .. Len(GroupAt(d, p).Shards) : OwnersOf(GroupAt(d, p), i) = {id}}

\* C11 as stated: DeleteDataNode of the last data node of a cluster that
\* has shard groups with shards owned by it returns an error.
C11_LastNodeDeleteFails ==
    \A id \in NodeIDs :
        LastNodeCase(data, id) =>
            \A r \in DeleteDataNode(data, id, now) : r.err # NilErr

\* C11 as the code has it: that call returns nil, empties the data-node
\* list, leaves no shard owned by the node and tombstones at the clock's
\* reading every group of which the node was the only owner, whose shards
\* stay in the group without an owner.
C11_LastNodeDeleteTombstones ==
    \A id \in NodeIDs :
        LastNodeCase(data, id) =>
            \A r \in DeleteDataNode(data, id, now) :
                /\ r.err = NilErr
                /\ r.data.DataNodes = <<>>
                /\ \A g \in AllGroups(r.data) :
                     \A i \in 1 .. Len(g.Shards) : id \notin OwnersOf(g, i)
                /\ \A p \in SolelyOwned(data, id) :
                     /\ GroupAt(r.data, p).DeletedAt = now
                     /\ Len(GroupAt(r.data, p).Shards) = Len(GroupAt(data, p).Shards)
                     /\ \A i \in 1 .. Len(GroupAt(r.data, p).Shards) :
                          GroupAt(r.data, p).Shards[i].Owners = <<>>

\* C11 witness: the last data node is the only owner of a live group with
\* shards, and its deletion returns nil and tombstones the group.
C11_Witness ==
    \E id \in NodeIDs :
        /\ LastNodeCase(data, id)
        /\ \E p \in SolelyOwned(data, id) :
             /\ ~Deleted(GroupAt(data, p))
             /\ \E r \in DeleteDataNode(data, id, now) :
                  r.err = NilErr /\ Deleted(GroupAt(r.data, p))

\* ------------------------------------------------------------------- users
UserNames == {"u1", "u2"}

Hashes == {"x", "y"}

\* influxql.ReadPrivilege and influxql.AllPrivileges.
PrivilegeValues == {1, 3}

\* Index of the user of that name in d.Users, 0 if none.
UserIndex(d, username) ==
    LET Named(u) == u.Name = username IN FirstIndex(d.Users, Named)

hasAdminUser(d) == \E i \in 1 .. Len(d.Users) : d.Users[i].Admin

\* A user's privileges are a nil map (None) or a map, held as the set of
\* its <<database, privilege>> entries.
PrivilegePut(m, database, p) ==
    {e \in m : e[1] # database} \cup {<<database, p>>}

CreateUser(d, name, hash, admin) ==
    IF name = "" THEN Result(d, "ErrUsernameRequired")
    ELSE IF UserIndex(d, name) # 0 THEN Result(d, "ErrUserExists")
    ELSE Result([d EXCEPT !.Users = Append(@, [Name |-> name, Hash |-> hash,
                                               Admin |-> admin,
                                               Privileges |-> None]),
                          !.adminUserExists = IF admin THEN TRUE ELSE @],
                NilErr)

\* Mutant of DropUser: the cached flag is left as it was.
DropUserKeepFlag(d, name) ==
    LET i == UserIndex(d, name)
    IN IF i = 0 THEN Result(d, "ErrUserNotFound")
       ELSE Result([d EXCEPT !.Users = RemoveAt(@, i)], NilErr)

DropUser(d, name) ==
    LET i == UserIndex(d, name)
    IN IF i = 0 THEN Result(d, "ErrUserNotFound")
       ELSE LET wasAdmin == d.Users[i].Admin
                d1 == [d EXCEPT !.Users = RemoveAt(@, i)]
            IN Result(IF wasAdmin
                      THEN [d1 EXCEPT !.adminUserExists = hasAdminUser(d1)]
                      ELSE d1,
                      NilErr)

UpdateUser(d, name, hash) ==
    LET i == UserIndex(d, name)
    IN IF i = 0 THEN Result(d, "ErrUserNotFound")
       ELSE Result([d EXCEPT !.Users[i].Hash = hash], NilErr)

SetPrivilege(d, name, database, p) ==
    LET i == UserIndex(d, name)
    IN IF i = 0 THEN Result(d, "ErrUserNotFound")
       ELSE IF DatabaseIndex(d, database) = 0
       THEN Result(d, "ErrDatabaseNotFound")
       ELSE LET m == IF IsSet(d.Users[i].Privileges)
                     THEN Val(d.Users[i].Privileges) ELSE {}
            IN Result([d EXCEPT !.Users[i].Privileges =
                                    Some(PrivilegePut(m, database, p))],
                      NilErr)

SetAdminPrivilege(d, name, admin) ==
    LET i == UserIndex(d, name)
    IN IF i = 0 THEN Result(d, "ErrUserNotFound")
       ELSE LET d1 == [d EXCEPT !.Users[i].Admin = admin]
            IN Result([d1 EXCEPT !.adminUserExists = hasAdminUser(d1)], NilErr)

\* ------------------------------------------------------------------- Clone
\* Every clone copies the value and then each slice or map element by
\* element; a nil map stays nil.
CloneShardGroup(sgi) ==
    [sgi EXCEPT !.Shards = [i \in 1 .. Len(sgi.Shards) |->
                              [sgi.Shards[i] EXCEPT !.Owners =
                                  [j \in 1 .. Len(sgi.Shards[i].Owners) |->
                                     sgi.Shards[i].Owners[j]]]]]

CloneRetentionPolicy(rpi) ==
    [rpi EXCEPT !.ShardGroups = [i \in 1 .. Len(rpi.ShardGroups) |->
                                   CloneShardGroup(rpi.ShardGroups[i])]]

CloneDatabase(di) ==
    [di EXCEPT !.RetentionPolicies = [i \in 1 .. Len(di.RetentionPolicies) |->
                                        CloneRetentionPolicy(di.RetentionPolicies[i])]]

CloneDatabases(d) ==
    [i \in 1 .. Len(d.Databases) |-> CloneDatabase(d.Databases[i])]

CloneUser(ui) ==
    IF IsSet(ui.Privileges)
    THEN [ui EXCEPT !.Privileges = Some({e : e \in Val(ui.Privileges)})]
    ELSE ui

CloneUsers(d) == [i \in 1 .. Len(d.Users) |-> CloneUser(d.Users[i])]

Clone(d) == [d EXCEPT !.Databases = CloneDatabases(d), !.Users = CloneUsers(d)]

\* ------------------------------------------------------ marshal, unmarshal
\* The instant time.Unix(0, 0) on the model's time axis.
UnixEpoch == TimeBase

\* int(uint32(n)) on a 64-bit build: a negative count comes back as
\* 2^32 + n, above every count of the model; it is held as MaxInt32.
MaxInt32 == 2147483647

Uint32(n) == IF n >= 0 THEN n ELSE MaxInt32

\* Nanoseconds since the epoch; the zero time encodes as 0.
MarshalTime(t) == IF t = ZeroTime THEN 0 ELSE t - UnixEpoch

\* 0 decodes as the zero time.
UnmarshalTime(v) == IF v = 0 THEN ZeroTime ELSE v + UnixEpoch

NodeInfoMarshal(ni) == [ID |-> ni.ID, Addr |-> ni.Addr, TCPAddr |-> ni.TCPAddr]

NodeInfoUnmarshal(pb) == [ID |-> pb.ID, Addr |-> pb.Addr, TCPAddr |-> pb.TCPAddr]

ShardInfoMarshal(si) ==
    [ID |-> si.ID, Owners |-> [i \in 1 .. Len(si.Owners) |-> si.Owners[i]]]

ShardInfoUnmarshal(pb) ==
    [ID |-> pb.ID, Owners |-> [i \in 1 .. Len(pb.Owners) |-> pb.Owners[i]]]

\* TruncatedAt is an optional field, written only for a truncated group.
ShardGroupInfoMarshal(sgi) ==
    [ID |-> sgi.ID,
     StartTime |-> MarshalTime(sgi.StartTime),
     EndTime |-> MarshalTime(sgi.EndTime),
     DeletedAt |-> MarshalTime(sgi.DeletedAt),
     TruncatedAt |-> IF sgi.TruncatedAt # ZeroTime
                     THEN Some(MarshalTime(sgi.TruncatedAt)) ELSE None,
     Shards |-> [i \in 1 .. Len(sgi.Shards) |-> ShardInfoMarshal(sgi.Shards[i])]]

\* A start or end time of 0 decodes as the epoch, not as the zero time.
ShardGroupInfoUnmarshal(pb) ==
    [ID |-> pb.ID,
     StartTime |-> IF pb.StartTime = 0 THEN UnixEpoch
                   ELSE UnmarshalTime(pb.StartTime),
     EndTime |-> IF pb.EndTime = 0 THEN UnixEpoch
                 ELSE UnmarshalTime(pb.EndTime),
     DeletedAt |-> UnmarshalTime(pb.DeletedAt),
     TruncatedAt |-> IF IsSet(pb.TruncatedAt)
                     THEN UnmarshalTime(Val(pb.TruncatedAt)) ELSE ZeroTime,
     Shards |-> [i \in 1 .. Len(pb.Shards) |-> ShardInfoUnmarshal(pb.Shards[i])]]

RetentionPolicyInfoMarshal(rpi) ==
    [Name |-> rpi.Name, ReplicaN |-> Uint32(rpi.ReplicaN),
     Duration |-> rpi.Duration, ShardGroupDuration |-> rpi.ShardGroupDuration,
     ShardGroups |-> [i \in 1 .. Len(rpi.ShardGroups) |->
                        ShardGroupInfoMarshal(rpi.ShardGroups[i])]]

RetentionPolicyInfoUnmarshal(pb) ==
    [Name |-> pb.Name, ReplicaN |-> pb.ReplicaN,
     Duration |-> pb.Duration, ShardGroupDuration |-> pb.ShardGroupDuration,
     ShardGroups |-> [i \in 1 .. Len(pb.ShardGroups) |->
                        ShardGroupInfoUnmarshal(pb.ShardGroups[i])]]

DatabaseInfoMarshal(di) ==
    [Name |-> di.Name, DefaultRetentionPolicy |-> di.DefaultRetentionPolicy,
     RetentionPolicies |-> [i \in 1 .. Len(di.RetentionPolicies) |->
                              RetentionPolicyInfoMarshal(di.RetentionPolicies[i])]]

DatabaseInfoUnmarshal(pb) ==
    [Name |-> pb.Name, DefaultRetentionPolicy |-> pb.DefaultRetentionPolicy,
     RetentionPolicies |-> [i \in 1 .. Len(pb.RetentionPolicies) |->
                              RetentionPolicyInfoUnmarshal(pb.RetentionPolicies[i])]]

\* The sequences that list every element of S once.
Orderings(S) == {s \in [1 .. Cardinality(S) -> S] : Range(s) = S}

\* The privileges are written in the map's iteration order, which is any
\* order: the set of the messages a user can marshal to.
UserInfoMarshal(ui) ==
    LET m == IF IsSet(ui.Privileges) THEN Val(ui.Privileges) ELSE {}
        entries == {[Database |-> e[1], Privilege |-> e[2]] : e \in m}
    IN {[Name |-> ui.Name, Hash |-> ui.Hash, Admin |-> ui.Admin,
         Privileges |-> o] : o \in Orderings(entries)}

RECURSIVE PrivilegesFrom(_, _, _)
\* The map built by putting the entries of a message one after another.
PrivilegesFrom(ps, k, m) ==
    IF k > Len(ps) THEN m
    ELSE PrivilegesFrom(ps, k + 1, PrivilegePut(m, ps[k].Database, ps[k].Privilege))

UserInfoUnmarshal(pb) ==
    [Name |-> pb.Name, Hash |-> pb.Hash, Admin |-> pb.Admin,
     Privileges |-> Some(PrivilegesFrom(pb.Privileges, 1, {}))]

\* The messages d can marshal to, one per order of the users' privileges.
\* The cached flag adminUserExists is not part of the message.
marshal(d) ==
    LET userPBs == {s \in [1 .. Len(d.Users) ->
                             UNION {UserInfoMarshal(d.Users[i]) : i \in 1 .. Len(d.Users)}] :
                       \A i \in 1 .. Len(d.Users) : s[i] \in UserInfoMarshal(d.Users[i])}
    IN {[Term |-> d.Term, Index |-> d.Index, ClusterID |-> d.ClusterID,
         MaxNodeID |-> d.MaxNodeID, MaxShardGroupID |-> d.MaxShardGroupID,
         MaxShardID |-> d.MaxShardID,
         DataNodes |-> [i \in 1 .. Len(d.DataNodes) |-> NodeInfoMarshal(d.DataNodes[i])],
         MetaNodes |-> [i \in 1 .. Len(d.MetaNodes) |-> NodeInfoMarshal(d.MetaNodes[i])],
         Databases |-> [i \in 1 .. Len(d.Databases) |-> DatabaseInfoMarshal(d.Databases[i])],
         Users |-> users] : users \in userPBs}

unmarshal(pb) ==
    LET d == [Term |-> pb.Term, Index |-> pb.Index, ClusterID |-> pb.ClusterID,
              MetaNodes |-> [i \in 1 .. Len(pb.MetaNodes) |-> NodeInfoUnmarshal(pb.MetaNodes[i])],
              DataNodes |-> [i \in 1 .. Len(pb.DataNodes) |-> NodeInfoUnmarshal(pb.DataNodes[i])],
              Databases |-> [i \in 1 .. Len(pb.Databases) |-> DatabaseInfoUnmarshal(pb.Databases[i])],
              Users |-> [i \in 1 .. Len(pb.Users) |-> UserInfoUnmarshal(pb.Users[i])],
              adminUserExists |-> FALSE,
              MaxNodeID |-> pb.MaxNodeID, MaxShardGroupID |-> pb.MaxShardGroupID,
              MaxShardID |-> pb.MaxShardID]
    IN [d EXCEPT !.adminUserExists = hasAdminUser(d)]

\* ------------------------------------------------------------ user actions
CreateUserStep(names, hashes, admins) ==
    \E name \in names, hash \in hashes, admin \in admins :
        Call({CreateUser(data, name, hash, admin)})

DropUserStep(names) ==
    \E name \in names : Call({DropUser(data, name)})

UpdateUserStep(names, hashes) ==
    \E name \in names, hash \in hashes : Call({UpdateUser(data, name, hash)})

SetPrivilegeStep(names, databases, ps) ==
    \E name \in names, database \in databases, p \in ps :
        Call({SetPrivilege(data, name, database, p)})

SetAdminPrivilegeStep(names, admins) ==
    \E name \in names, admin \in admins :
        Call({SetAdminPrivilege(data, name, admin)})

\* The store goes on with the copy.
CloneStep == Call({Result(Clone(data), NilErr)})

\* The store is saved and loaded again.
UnmarshalStep == Call({Result(unmarshal(pb), NilErr) : pb \in marshal(data)})

\* --------------------------------------------------------------- SpecUsers
\* Users, their privileges on a database, copies and reloads of the store.
UCreateDatabase == CreateDatabaseStep(DBNames)
UCreateUser == CreateUserStep(UserNames \cup {""}, {"x"}, BOOLEAN)
UDropUser == DropUserStep(UserNames)
UUpdateUser == UpdateUserStep(UserNames, Hashes)
USetPrivilege == SetPrivilegeStep(UserNames, DBNames \cup {"db1"}, PrivilegeValues)
USetAdminPrivilege == SetAdminPrivilegeStep(UserNames, BOOLEAN)
UClone == CloneStep
UUnmarshal == UnmarshalStep

NextUsers ==
    \/ UCreateDatabase
    \/ UCreateUser
    \/ UDropUser
    \/ UUpdateUser
    \/ USetPrivilege
    \/ USetAdminPrivilege
    \/ UClone
    \/ UUnmarshal

SpecUsers == Init /\ [][NextUsers]_vars

\* ------------------------------------------------- the cached admin flag
\* C12: in every state reached by CreateUser, DropUser, UpdateUser,
\* SetAdminPrivilege, SetPrivilege, Clone and unmarshal, the cached flag
\* adminUserExists is true exactly when some user is an admin.
C12_AdminFlagMatchesUsers ==
    data.adminUserExists <=> \E u \in Range(data.Users) : u.Admin

\* C12 witness: one of two users is an admin, the other was one and is no
\* longer; the store holds a privilege and has been loaded from a message.
C12_Witness ==
    /\ Len(data.Users) = 2
    /\ data.Users[1].Admin /\ ~data.Users[2].Admin
    /\ data.adminUserExists
    /\ \A u \in Range(data.Users) : IsSet(u.Privileges)
    /\ \E u \in Range(data.Users) : Val(u.Privileges) # {}

\* ------------------------------------------------- a rejected call's trace
\* Every result with an error carries d unchanged.
Rejects(results, d) == \A r \in results : r.err # NilErr => r.data = d

PolicyInputs ==
    {Policy(name, replicaN, dur, sgd) :
        name \in RPNames \cup {""}, replicaN \in {0, 1},
        dur \in {0, 1, Hour, Day}, sgd \in {0, Hour, Day}}

UpdateInputs ==
    {Update(name, dur, replicaN, sgd) :
        name \in {None, Some("rp0"), Some("rp1")},
        dur \in {None, Some(0), Some(1), Some(Hour)},
        replicaN \in {None, Some(0), Some(2)},
        sgd \in {None, Some(0), Some(Day)}}

NodeCallsReject ==
    /\ \A tcpAddr \in TCPAddrs : Rejects({CreateDataNode(data, "d", tcpAddr)}, data)
    /\ \A httpAddr \in HTTPAddrs, tcpAddr \in TCPAddrs :
         /\ Rejects({CreateMetaNode(data, httpAddr, tcpAddr)}, data)
         /\ Rejects({SetMetaNode(data, httpAddr, tcpAddr)}, data)
    /\ \A id \in {0} \cup NodeIDs :
         /\ Rejects({DeleteMetaNode(data, id)}, data)
         /\ Rejects({[data |-> r.data, err |-> r.err] :
                        r \in DeleteDataNode(data, id, now)}, data)

PolicyCallsReject ==
    /\ \A name \in DBNames \cup {"", TooLongName} :
         Rejects({CreateDatabase(data, name)}, data)
    /\ \A database \in DBNames \cup {"db1"}, makeDefault \in BOOLEAN :
         /\ \A rpi \in PolicyInputs :
              Rejects({CreateRetentionPolicy(data, database, rpi, makeDefault)}, data)
         /\ \A rpu \in UpdateInputs, name \in RPNames \cup {"rp1"} :
              Rejects({UpdateRetentionPolicy(data, database, name, rpu, makeDefault)}, data)
    /\ \A database \in DBNames \cup {"db1"}, policy \in RPNames \cup {"rp1"} :
         /\ \A timestamp \in Times :
              Rejects({CreateShardGroup(data, database, policy, timestamp)}, data)
         /\ \A id \in 1 .. MaxGroups :
              Rejects({DeleteShardGroup(data, database, policy, id, now)}, data)

UserCallsReject ==
    \A name \in UserNames \cup {""} :
        /\ \A admin \in BOOLEAN :
             /\ Rejects({CreateUser(data, name, "x", admin)}, data)
             /\ Rejects({SetAdminPrivilege(data, name, admin)}, data)
        /\ Rejects({DropUser(data, name)}, data)
        /\ Rejects({UpdateUser(data, name, "y")}, data)
        /\ \A database \in DBNames \cup {"db1"} :
             Rejects({SetPrivilege(data, name, database, 1)}, data)

\* A backup of two databases, the second of the store's own database name.
TwoDatabaseBackup ==
    LET d1 == CreateDatabase(Backup, "db0").data
    IN CreateRetentionPolicy(d1, "db0", Policy("rp0", 1, 0, Hour), TRUE).data

ImportCallsReject ==
    \A other \in {Backup, TwoDatabaseBackup},
       backupDBName \in {"", "db0", "db1"}, restoreDBName \in {"", "db0"},
       backupRPName \in {"", "rp0", "rp1"} :
        Rejects({ImportData(data, other, backupDBName, restoreDBName, backupRPName, "")},
                data)

\* C13 as stated: a mutator that returns an error leaves Data exactly as
\* it was before the call, ImportData included.
C13_ErrorLeavesDataUnchanged ==
    /\ NodeCallsReject
    /\ PolicyCallsReject
    /\ UserCallsReject
    /\ ImportCallsReject

\* --------------------------------------------------- what ImportData leaves
\* The database of that name in d.
DatabaseNamed(d, name) == d.Databases[DatabaseIndex(d, name)]

\* The policies ImportData takes from a database of the backup.
SourcePolicies(di, backupRPName) ==
    IF backupRPName = "" THEN di.RetentionPolicies
    ELSE <<di.RetentionPolicies[PolicyIndex(di, backupRPName)]>>

\* The shards of a sequence of policies, as <<policy, group, shard>> positions.
ShardPositions(rps) ==
    {<<i, j, k>> \in (1 .. Len(rps)) \X (1 .. MaxGroups) \X (1 .. MaxNodes) :
        /\ j <= Len(rps[i].ShardGroups)
        /\ k <= Len(rps[i].ShardGroups[j].Shards)}

ShardAt(rps, p) == rps[p[1]].ShardGroups[p[2]].Shards[p[3]]

\* One successful import r of `other` into d: every new database was not
\* in d, its groups and shards stand where the backup has them with IDs
\* above d's counters and no owners, and the map has one entry per
\* imported shard, from the backup's shard ID to the new, distinct, ID.
ImportedWell(d, other, backupDBName, backupRPName, r) ==
    LET imported ==
            {<<name, p>> \in Range(r.newDBs) \X ((1 .. 2) \X (1 .. MaxGroups) \X (1 .. MaxNodes)) :
                p \in ShardPositions(DatabaseNamed(r.data, name).RetentionPolicies)}
        Source(name) ==
            SourcePolicies(DatabaseNamed(other, IF backupDBName # "" THEN backupDBName
                                                ELSE name),
                           backupRPName)
        New(e) == ShardAt(DatabaseNamed(r.data, e[1]).RetentionPolicies, e[2])
    IN /\ \A name \in Range(r.newDBs) :
            /\ DatabaseIndex(d, name) = 0
            /\ DatabaseIndex(r.data, name) # 0
            /\ Len(DatabaseNamed(r.data, name).RetentionPolicies) = Len(Source(name))
            /\ ShardPositions(DatabaseNamed(r.data, name).RetentionPolicies)
                 = ShardPositions(Source(name))
            /\ \A rp \in Range(DatabaseNamed(r.data, name).RetentionPolicies) :
                 \A g \in Groups(rp) : g.ID > d.MaxShardGroupID
       /\ \A e \in imported :
            /\ New(e).ID > d.MaxShardID
            /\ New(e).Owners = <<>>
            /\ ShardAt(Source(e[1]), e[2]).ID \in DOMAIN r.shardIDMap
            /\ r.shardIDMap[ShardAt(Source(e[1]), e[2]).ID] = New(e).ID
       /\ Cardinality(DOMAIN r.shardIDMap) = Cardinality(imported)
       /\ Cardinality({New(e).ID : e \in imported}) = Cardinality(imported)
       /\ {r.shardIDMap[s] : s \in DOMAIN r.shardIDMap} = {New(e).ID : e \in imported}

ImportSources == {Backup, TwoDatabaseBackup, data}

DurationInputs == {0 - Hour, 0, 1, Hour, Day}

RCreateDatabase == CreateDatabaseStep(DBNames)
RCreateRetentionPolicy ==
    CreateRetentionPolicyStep(
        {Policy(name, 1, dur, sgd) :
            name \in {"rp0", "rp1"}, dur \in DurationInputs, sgd \in DurationInputs},
        BOOLEAN)
RUpdateRetentionPolicy ==
    UpdateRetentionPolicyStep(
        {Update(None, dur, None, sgd) :
            dur \in {None} \cup {Some(v) : v \in DurationInputs},
            sgd \in {None} \cup {Some(v) : v \in DurationInputs}},
        {FALSE})

NextPolicies ==
    \/ RCreateDatabase
    \/ RCreateRetentionPolicy
    \/ RUpdateRetentionPolicy

SpecPolicies == Init /\ [][NextPolicies]_vars

\* C15 as stated: every stored retention policy has duration = 0 or
\* duration >= shardGroupDuration, with duration >= 0 and
\* shardGroupDuration > 0.
C15_DurationsCompatible ==
    \A rp \in Policies(data) :
        /\ rp.Duration = 0 \/ rp.Duration >= rp.ShardGroupDuration
        /\ rp.Duration >= 0
        /\ rp.ShardGroupDuration > 0

\* ----------------------------------------------------- the replication factor
\* C16 as stated: every stored retention policy has replicaN >= 1, and
\* every shard of a group created on a cluster with a data node has an
\* owner.
C16_ReplicaNAtLeastOne ==
    /\ \A rp \in Policies(data) : rp.ReplicaN >= 1
    /\ Len(data.DataNodes) >= 1 =>
         \A database \in DBNames, policy \in RPNames, timestamp \in Times :
            LET r == CreateShardGroup(data, database, policy, timestamp)
            IN (r.err = NilErr /\ r.data.MaxShardGroupID > data.MaxShardGroupID) =>
                 \A g \in AllGroups(r.data) :
                    g.ID = r.data.MaxShardGroupID =>
                       \A i \in 1 .. Len(g.Shards) : Len(g.Shards[i].Owners) >= 1

\* ---------------------------------------------------- TruncateShardGroups(t)
\* Group g of the store before TruncateShardGroups(t) and the group g2 at
\* its place after it.
TruncatedWell(g, g2, t) ==
    /\ \A t2 \in Times : t2 >= t => ~Writable(g2, t2)
    /\ (~Deleted(g) /\ t <= g.StartTime) =>
          g2 = [g EXCEPT !.TruncatedAt = g.StartTime]
    /\ (~Deleted(g) /\ g.StartTime < t /\ t < g.EndTime) =>
          g2 = IF Truncated(g) /\ g.TruncatedAt < t THEN g
               ELSE [g EXCEPT !.TruncatedAt = t]
    /\ (Deleted(g) \/ g.EndTime <= t \/ (Truncated(g) /\ g.TruncatedAt < t)) =>
          g2 = g

\* C17: after TruncateShardGroups(t) no shard group that existed at the
\* call is writable at a time t' >= t, nor returned by
\* ShardGroupByTimestamp for it: a live group with t <= startTime gets
\* truncatedAt = startTime, a live group with startTime < t < endTime gets
\* truncatedAt = t unless it was truncated earlier than t, and deleted
\* groups, groups with endTime <= t and groups truncated before t stay as
\* they are.
C17_TruncateClosesGroups ==
    \A t \in Times :
        LET r == TruncateShardGroups(data, t)
        IN /\ r.err = NilErr
           /\ GroupPaths(r.data) = GroupPaths(data)
           /\ \A p \in GroupPaths(data) :
                TruncatedWell(GroupAt(data, p), GroupAt(r.data, p), t)
           /\ \A rp \in Policies(r.data) : \A t2 \in Times :
                t2 >= t => ShardGroupByTimestamp(rp, t2) = 0

\* C17 witness: one call truncates a writable group at t inside its
\* interval and a writable group that starts after t at its start time.
C17_Witness ==
    \E t \in Times : \E p, q \in GroupPaths(data) :
        LET r == TruncateShardGroups(data, t)
            g == GroupAt(data, p)
            h == GroupAt(data, q)
        IN /\ ~Deleted(g) /\ ~Truncated(g) /\ g.StartTime < t /\ t < g.EndTime
           /\ ~Deleted(h) /\ ~Truncated(h) /\ t < h.StartTime
           /\ GroupAt(r.data, p).TruncatedAt = t
           /\ GroupAt(r.data, q).TruncatedAt = h.StartTime

\* ------------------------------------------------------------- SpecMarshal
\* A store with a data node, a user, and a shard group that starts at the
\* Unix epoch and is truncated or deleted, saved and loaded again.
MCreateDataNode == data.MaxNodeID < PlacementNodes /\ CreateDataNodeStep({"a"})
MCreateDatabase == CreateDatabaseStep(DBNames)
MCreateRetentionPolicy ==
    CreateRetentionPolicyStep({Policy("rp0", 1, 0, Hour)}, {TRUE})
MCreateShardGroup == CreateShardGroupStep({UnixEpoch, UnixEpoch + Hour})
MTruncateShardGroups == TruncateShardGroupsStep({UnixEpoch, UnixEpoch + 1})
MDeleteShardGroup == DeleteShardGroupStep({1})
MCreateUser == CreateUserStep({"u1"}, {"x"}, BOOLEAN)
MSetPrivilege == SetPrivilegeStep({"u1"}, DBNames, PrivilegeValues)
MSetIndex == SetIndexStep
MUnmarshal == UnmarshalStep

NextMarshal ==
    \/ MCreateDataNode
    \/ MCreateDatabase
    \/ MCreateRetentionPolicy
    \/ MCreateShardGroup
    \/ MTruncateShardGroups
    \/ MDeleteShardGroup
    \/ MCreateUser
    \/ MSetPrivilege
    \/ MSetIndex
    \/ MUnmarshal

SpecMarshal == Init /\ [][NextMarshal]_vars

\* d with the cached flag cleared and every nil privilege map made empty.
UpToNilAndCache(d) ==
    [d EXCEPT !.adminUserExists = FALSE,
              !.Users = [i \in 1 .. Len(d.Users) |->
                           [d.Users[i] EXCEPT !.Privileges =
                               Some(IF IsSet(@) THEN Val(@) ELSE {})]]]

\* C18 as stated: marshal followed by unmarshal gives the store back, up
\* to nil against empty and the recomputed adminUserExists: counters,
\* nodes, databases, policies, groups with their four timestamps (the
\* epoch among them), shards with owners, and users.
C18_RoundTrip ==
    \A pb \in marshal(data) :
        UpToNilAndCache(unmarshal(pb)) = UpToNilAndCache(data)

\* --------------------------------------------------------------- MapShards
\* models.MinNanoTime on the model's time line: before every point.
MinNanoTime == TimeBase - Week

\* The times of the points of a write request.
PointTimes == (NowBase - Hour - 1) .. NowBase

\* A point is its time and the hash of its series key.
Point(t, h) == [Time |-> t, HashID |-> h]

EmptyList ==
    [items |-> <<>>, needsSort |-> FALSE, earliest |-> ZeroTime, latest |-> ZeroTime]

\* sort.Search over items[i .. j-1] (from 0) for an end time after t.
RECURSIVE SearchEndAfter(_, _, _, _)
SearchEndAfter(items, i, j, t) ==
    IF i >= j THEN i
    ELSE LET h == (i + j) \div 2
         IN IF ~(items[h + 1].EndTime > t)
            THEN SearchEndAfter(items, h + 1, j, t)
            ELSE SearchEndAfter(items, i, h, t)

\* The list's items as the call leaves them (sorted in the array the
\* caller's list shares; needsSort is reset in the callee's copy only) and
\* the position of the group found, 0 for nil.
ShardGroupAt(l, t) ==
    IF Len(l.items) = 0 THEN [items |-> l.items, idx |-> 0]
    ELSE LET items == IF l.needsSort THEN SortGroups(l.items) ELSE l.items
             idx == SearchEndAfter(items, 0, Len(items), t)
         IN IF idx = Len(items) \/ t < items[idx + 1].StartTime
            THEN IF t < l.earliest \/ t > l.latest
                 THEN [items |-> items, idx |-> 0]
                 ELSE [items |-> items,
                       idx |-> FirstIndex(items, LAMBDA g : Contains(g, t))]
            ELSE [items |-> items, idx |-> idx + 1]

Covers(l, t) ==
    IF Len(l.items) = 0 THEN [items |-> l.items, covers |-> FALSE]
    ELSE LET r == ShardGroupAt(l, t)
         IN [items |-> r.items, covers |-> r.idx # 0]

Add(l, sgi) ==
    [items |-> Append(l.items, sgi),
     needsSort |-> TRUE,
     earliest |-> IF l.earliest = ZeroTime \/ l.earliest > sgi.StartTime
                  THEN sgi.StartTime ELSE l.earliest,
     latest |-> IF l.latest = ZeroTime \/ l.latest < sgi.EndTime
                THEN sgi.EndTime ELSE l.latest]

\* The meta client's RetentionPolicy: the policy, nil (None) if the
\* database has none of that name, an error if there is no database.
MetaClientRetentionPolicy(d, database, policy) ==
    LET i == DatabaseIndex(d, database)
    IN IF i = 0 THEN [rp |-> None, err |-> "ErrDatabaseNotFound"]
       ELSE LET j == PolicyIndex(d.Databases[i], policy)
            IN IF j = 0 THEN [rp |-> None, err |-> NilErr]
               ELSE [rp |-> Some(d.Databases[i].RetentionPolicies[j]), err |-> NilErr]

\* The answer of the meta client for the result r of Data.CreateShardGroup:
\* the group of the policy that takes the timestamp, nil (None) if none.
CreatedShardGroup(r, database, policy, timestamp) ==
    IF r.err # NilErr THEN [data |-> r.data, err |-> r.err, sg |-> None]
    ELSE LET rpi == Val(MetaClientRetentionPolicy(r.data, database, policy).rp)
             k == ShardGroupByTimestamp(rpi, timestamp)
         IN [data |-> r.data, err |-> NilErr,
             sg |-> IF k = 0 THEN None ELSE Some(rpi.ShardGroups[k])]

\* The meta client's CreateShardGroup: Data.CreateShardGroup applied to the
\* store, and the group of the policy that then takes the timestamp.
MetaClientCreateShardGroup(d, database, policy, timestamp) ==
    CreatedShardGroup(CreateShardGroup(d, database, policy, timestamp),
                      database, policy, timestamp)

\* The list after the meta client answered r for a point the list (with
\* its items as Covers left them) does not cover.
AddCreated(r, seen) ==
    [data |-> r.data,
     err |-> IF r.err # NilErr THEN r.err
             ELSE IF ~IsSet(r.sg) THEN "nil shard group"
             ELSE NilErr,
     list |-> IF IsSet(r.sg) THEN Add(seen, Val(r.sg)) ELSE seen]

\* The list after Covers answered c for the point at time t.
RequireUncovered(d, database, policy, t, list, c) ==
    IF c.covers THEN [data |-> d, err |-> NilErr, list |-> [list EXCEPT !.items = c.items]]
    ELSE AddCreated(MetaClientCreateShardGroup(d, database, policy, t),
                    [list EXCEPT !.items = c.items])

\* One pass of the first loop of MapShards, for a point at time t: the
\* point is out of the policy's scope or covered by the list, or its
\* shard group is created and added to the list.
RequireGroup(d, database, policy, t, list, min) ==
    IF t < min THEN [data |-> d, err |-> NilErr, list |-> list]
    ELSE RequireUncovered(d, database, policy, t, list, Covers(list, t))

RECURSIVE RequiredGroups(_, _, _, _, _, _, _)
\* The first loop of MapShards after the pass for the k-th point gave r.
RequiredAfter(r, database, policy, points, k, min) ==
    IF r.err # NilErr THEN r
    ELSE RequiredGroups(r.data, database, policy, points, k + 1, r.list, min)

\* The first loop of MapShards, from the k-th point on: the shard groups
\* the request needs.
RequiredGroups(d, database, policy, points, k, list, min) ==
    IF k > Len(points) THEN [data |-> d, err |-> NilErr, list |-> list]
    ELSE RequiredAfter(RequireGroup(d, database, policy, points[k].Time, list, min),
                       database, policy, points, k, min)

\* ShardFor answering the first shard of the group for every point.
ShardForFirst(sgi, p) == sgi.Shards[1]

ShardFor(sgi, p) ==
    IF Len(sgi.Shards) = 1 THEN sgi.Shards[1]
    ELSE sgi.Shards[(p.HashID % Len(sgi.Shards)) + 1]

EmptyMapping == [Points |-> <<>>, Shards |-> <<>>, Dropped |-> <<>>]

MapPoint(s, shardInfo, p) ==
    [s EXCEPT !.Points = MapPut(@, shardInfo.ID,
                                IF shardInfo.ID \in DOMAIN @
                                THEN Append(@[shardInfo.ID], p) ELSE <<p>>),
              !.Shards = MapPut(@, shardInfo.ID, shardInfo)]

\* The mapping after ShardGroupAt answered r for point p.
Placed(list, p, mapping, r) ==
    [list |-> [list EXCEPT !.items = r.items],
     mapping |-> IF r.idx = 0
                 THEN [mapping EXCEPT !.Dropped = Append(@, p)]
                 ELSE MapPoint(mapping, ShardFor(r.items[r.idx], p), p)]

\* One pass of the second loop of MapShards: the point is dropped or
\* mapped to a shard of the group the list has for its time.
PlacePoint(list, p, mapping) == Placed(list, p, mapping, ShardGroupAt(list, p.Time))

RECURSIVE MapPoints(_, _, _, _)
\* The second loop of MapShards after the pass for the k-th point gave r.
MapAfter(r, points, k) == MapPoints(r.list, points, k + 1, r.mapping)

\* The second loop of MapShards, from the k-th point on.
MapPoints(list, points, k, mapping) ==
    IF k > Len(points) THEN mapping
    ELSE MapAfter(PlacePoint(list, points[k], mapping), points, k)

\* What MapShards returns for a mapping: the mapping and the number added
\* to the WriteDropped statistic.
Mapped(d, mapping) ==
    [data |-> d, err |-> NilErr, mapping |-> mapping,
     writeDropped |-> Len(mapping.Dropped)]

\* MapShards after its first loop gave r.
MapShardsAfter(r, points) ==
    IF r.err # NilErr
    THEN [data |-> r.data, err |-> r.err, mapping |-> EmptyMapping, writeDropped |-> 0]
    ELSE Mapped(r.data, MapPoints(r.list, points, 1, EmptyMapping))

\* MapShards for the policy rp of the request.
MapShardsFor(d, database, policy, points, nowT, rp) ==
    MapShardsAfter(
        RequiredGroups(d, database, policy, points, 1, EmptyList,
                       IF rp.Duration > 0 THEN nowT - rp.Duration ELSE MinNanoTime),
        points)

\* MapShards after the meta client answered found for the policy.
MapShardsFound(d, database, policy, points, nowT, found) ==
    IF found.err # NilErr
    THEN [data |-> d, err |-> found.err, mapping |-> EmptyMapping, writeDropped |-> 0]
    ELSE IF ~IsSet(found.rp)
    THEN [data |-> d, err |-> "ErrRetentionPolicyNotFound",
          mapping |-> EmptyMapping, writeDropped |-> 0]
    ELSE MapShardsFor(d, database, policy, points, nowT, Val(found.rp))

\* The store MapShards leaves, its error, the mapping (for a nil error)
\* and the number added to the WriteDropped statistic.
MapShards(d, database, policy, points, nowT) ==
    MapShardsFound(d, database, policy, points, nowT,
                   MetaClientRetentionPolicy(d, database, policy))

MapShardsStep(requests) ==
    \E points \in requests :
        Call({[data |-> r.data, err |-> r.err] :
                 r \in {MapShards(data, "db0", "rp0", points, now)}})

\* --------------------------------------------------------------- SpecWrite
\* Write requests of one or two points around the retention horizon and
\* the truncation time of a one-node cluster.
Requests ==
    {<<Point(t, 0)>> : t \in PointTimes}
        \cup {<<Point(t1, 0), Point(t2, 0)>> : t1 \in PointTimes, t2 \in PointTimes}

WCreateDataNode == data.MaxNodeID < PlacementNodes /\ CreateDataNodeStep({"a"})
WCreateDatabase == CreateDatabaseStep(DBNames)
WCreateRetentionPolicy ==
    CreateRetentionPolicyStep({Policy("rp0", 1, dur, Hour) : dur \in {0, Hour, Day}}, {TRUE})
WTruncateShardGroups == TruncateShardGroupsStep({NowBase})
WDeleteShardGroup == DeleteShardGroupStep({1})
WMapShards == MapShardsStep(Requests)

NextWrite ==
    \/ WCreateDataNode
    \/ WCreateDatabase
    \/ WCreateRetentionPolicy
    \/ WTruncateShardGroups
    \/ WDeleteShardGroup
    \/ WMapShards

SpecWrite == Init /\ [][NextWrite]_vars

\* The points a mapping sends to some shard.
MappedPoints(mapping) ==
    UNION {Range(mapping.Points[s]) : s \in DOMAIN mapping.Points}

\* C19 as stated: for a retention policy with duration > 0, MapShards
\* drops and counts every point of the request older than now - duration
\* and maps none of them to a shard, whatever the other points of the
\* request are.
C19_OldPointsDropped ==
    (HasPolicy(data) /\ ThePolicy(data).Duration > 0) =>
        \A points \in Requests :
            LET r == MapShards(data, "db0", "rp0", points, now)
                old == {p \in Range(points) : p.Time < now - ThePolicy(data).Duration}
            IN r.err = NilErr =>
                 /\ old \subseteq Range(r.mapping.Dropped)
                 /\ old \cap MappedPoints(r.mapping) = {}
                 /\ r.writeDropped = Len(r.mapping.Dropped)

\* C20 as stated: MapShards maps no point with time >= truncatedAt to a
\* shard of a truncated group, whatever the other points of the request
\* are.
C20_NoPointPastTruncation ==
    \A points \in Requests :
        LET r == MapShards(data, "db0", "rp0", points, now)
        IN r.err = NilErr =>
             \A s \in DOMAIN r.mapping.Points : \A p \in Range(r.mapping.Points[s]) :
                \A g \in AllGroups(r.data) :
                   (\E i \in 1 .. Len(g.Shards) : g.Shards[i].ID = s) =>
                      ~(Truncated(g) /\ p.Time >= g.TruncatedAt)

\* ============================================================ points writer
\* Errors are the strings of their messages; NilErr is the nil error.
ErrTimeout == "timeout"
ErrPartialWrite == "partial write"
ErrWriteFailed == "write failed"
\* Errors of the collaborators (tsdb, hh): only the names the writer tests.
ErrShardNotFound == "shard not found"
ErrShardDeletion == "shard is being deleted"
ErrQueueBlocked == "queue is blocked"
ErrHintedHandoffQueueNotEmpty == "hinted handoff queue not empty"
\* tsdb.PartialWriteError{Reason, Dropped}.Error()
PartialWriteError(reason, dropped) ==
    "partial write: " \o reason \o " dropped=" \o ToString(dropped)
\* fmt.Errorf("write failed: %v", writeError)
WriteFailedError(writeError) == "write failed: " \o writeError

\* What the collaborators may answer: the local store to a write and to
\* CreateShard, a remote node to ShardWriter.WriteShard (an error that
\* hh.IsRetryable accepts or one it does not), the hinted-handoff service to
\* WriteShard.
StoreErrors == {NilErr, ErrShardNotFound, ErrShardDeletion, "engine error"}
CreateShardErrors == {NilErr, "create shard error"}
ShardWriterErrors == {NilErr, "connection refused", "field type conflict"}
IsRetryable(err) == err = "connection refused"
HandoffErrors == {NilErr, ErrQueueBlocked, "hinted handoff queue full"}

ConsistencyLevels == {"any", "one", "quorum", "all"}

\* The number of owner writes the consistency level requires of a shard
\* with n owners.
Required(n, consistency) ==
    IF consistency \in {"any", "one"} THEN 1
    ELSE IF consistency = "quorum" THEN (n \div 2) + 1
    ELSE n

\* The value of map m at key k, dflt if m has no such key.
Get(m, k, dflt) == IF k \in DOMAIN m THEN m[k] ELSE dflt

\* HintedHandoff.Empty(shardID, ownerID)
Empty(queues, shardID, ownerID) == Len(Get(queues, <<shardID, ownerID>>, <<>>)) = 0

\* A successful HintedHandoff.WriteShard: the points of call c join the
\* queue of the owner.
Enqueue(queues, shardID, ownerID, c) ==
    MapPut(queues, <<shardID, ownerID>>,
           Append(Get(queues, <<shardID, ownerID>>, <<>>), c))

\* The owner has received the points of call c, written directly by the
\* call or replayed from the queue.
Deliver(log, shardID, ownerID, c, via) ==
    MapPut(log, <<shardID, ownerID>>,
           Append(Get(log, <<shardID, ownerID>>, <<>>), [call |-> c, via |-> via]))

\* The local write of an owner goroutine: the store's answers to the
\* write, to CreateShard and to the second write give the result sent.
LocalResult(first, created, second) ==
    IF first = ErrShardNotFound
    THEN IF created # NilErr THEN created ELSE second
    ELSE first

\* The result a remote owner sends after its direct write failed with the
\* retryable error err and the hinted handoff answered hherr.
HandoffResult(consistency, err, hherr) ==
    IF hherr # NilErr THEN hherr
    ELSE IF consistency = "any" THEN NilErr
    ELSE err

\* QueuedResult with a successful hinted handoff reported as a success.
QueuedResultCounted(hherr) == hherr

\* The result a remote owner sends after the hinted handoff answered hherr
\* to the points queued behind a non-empty queue.
QueuedResult(hherr) ==
    IF hherr # NilErr THEN hherr ELSE ErrHintedHandoffQueueNotEmpty

\* ------------------------------------------------ writeToShardWithContext
\* The goroutine of one shard of a call as writeToShardWithContext starts:
\* the response channel is empty, nothing is written, the timer of
\* time.After(WriteTimeout) runs.
NewShardTask(shard, consistency, points) ==
    [shard |-> shard, consistency |-> consistency, points |-> points,
     ch |-> <<>>, received |-> 0, wrote |-> 0, writeError |-> NilErr,
     timer |-> "running", pc |-> "wait", ret |-> NilErr]

\* Collected with a success ending the call only past the required number.
CollectedPastRequired(t, result) ==
    LET t1 == [t EXCEPT !.received = @ + 1]
    IN IF result.Err # NilErr
       THEN IF result.Err = ErrQueueBlocked THEN t1
            ELSE [t1 EXCEPT !.writeError = IF @ = NilErr THEN result.Err ELSE @]
       ELSE IF t.wrote + 1 > Required(Len(t.shard.Owners), t.consistency)
            THEN [t1 EXCEPT !.wrote = @ + 1, !.pc = "done", !.ret = NilErr]
            ELSE [t1 EXCEPT !.wrote = @ + 1]

\* One pass of the loop over the owners that received result from the
\* response channel: an error is skipped (the first one not equal to
\* ErrQueueBlocked is kept), a success is counted and ends the call with
\* nil once the required number is reached.
Collected(t, result) ==
    LET t1 == [t EXCEPT !.received = @ + 1]
    IN IF result.Err # NilErr
       THEN IF result.Err = ErrQueueBlocked THEN t1
            ELSE [t1 EXCEPT !.writeError = IF @ = NilErr THEN result.Err ELSE @]
       ELSE IF t.wrote + 1 >= Required(Len(t.shard.Owners), t.consistency)
            THEN [t1 EXCEPT !.wrote = @ + 1, !.pc = "done", !.ret = NilErr]
            ELSE [t1 EXCEPT !.wrote = @ + 1]

\* Returned with the required number tested once more after the loop.
ReturnedIfRequired(t) ==
    IF t.wrote >= Required(Len(t.shard.Owners), t.consistency) THEN NilErr
    ELSE IF t.wrote > 0 THEN ErrPartialWrite
    ELSE IF t.writeError # NilErr THEN WriteFailedError(t.writeError)
    ELSE ErrWriteFailed

\* What writeToShardWithContext returns after the loop over the owners.
Returned(t) ==
    IF t.wrote > 0 THEN ErrPartialWrite
    ELSE IF t.writeError # NilErr THEN WriteFailedError(t.writeError)
    ELSE ErrWriteFailed

\* What the goroutine of the shard sends to WritePoints for the error that
\* writeToShardWithContext returned.
ShardResult(shard, points, err) ==
    IF err = ErrShardDeletion
    THEN PartialWriteError("shard " \o ToString(shard.ID) \o " is pending deletion",
                           Len(points))
    ELSE err

\* An unbuffered response channel: a send waits for the receiver.
ShardChanUnbuffered(t) == 0

\* "make(chan *AsyncWriteResult, len(shard.Owners))": the buffer of the
\* response channel of the write of a shard.
ShardChanCap(t) == Len(t.shard.Owners)

\* "make(chan error, len(shardMappings.Points))": the buffer of the channel
\* of the shards' results of a call.
CallChanCap(call) == Cardinality(DOMAIN call.shardMappings.Points)

\* The goroutine of shard k[2] of call k[1] ends: writeToShardWithContext
\* returned err and the goroutine sends the result to the call.
ShardEnds(k, t, err) ==
    /\ shardTasks' = [shardTasks EXCEPT ![k] = [t EXCEPT !.pc = "done", !.ret = err]]
    /\ calls' = [calls EXCEPT ![k[1]].ch = Append(@, ShardResult(t.shard, t.points, err))]

\* The points and the node of the owner goroutine k = <<call, shard ID,
\* position of the owner among the owners of the shard>>.
PointsOf(k) == shardTasks[<<k[1], k[2]>>].points
NodeOf(k) == shardTasks[<<k[1], k[2]>>].shard.Owners[k[3]]

\* An owner goroutine sends its result on the response channel of its
\* shard (buffered for every owner: the send never blocks) and ends, after
\* a last call of the collaborator named.
OwnerEnds(k, err, collaborator) ==
    /\ ownerTasks' = [ownerTasks EXCEPT ![k].pc = "done", ![k].err = err,
                                        ![k].invoked = @ \cup {collaborator}]
    /\ shardTasks' = [shardTasks EXCEPT ![<<k[1], k[2]>>].ch =
                          Append(@, [Owner |-> NodeOf(k), Err |-> err])]

\* The goroutine of the owner that is the writer's own node: the write to
\* the local store, with CreateShard and a second write if the store does
\* not have the shard.
OwnerWritesLocal ==
    \E k \in DOMAIN ownerTasks :
        /\ ownerTasks[k].pc = "start"
        /\ NodeOf(k) = localNodeID
        /\ \E first \in StoreErrors, created \in CreateShardErrors, second \in StoreErrors :
               OwnerEnds(k, LocalResult(first, created, second), "TSDBStore.WriteToShard")
        /\ pw' = [pw EXCEPT !.stats.PointWriteReqLocal = @ + Len(PointsOf(k))]
        /\ UNCHANGED <<data, now, panicked, localNodeID, subs, calls, hh, delivered,
                       leaseVars, lockVars>>

\* The goroutine of a remote owner reads the hinted-handoff queue of the
\* owner: behind a non-empty queue the points go to the queue, else to the
\* owner.
OwnerChecksQueue ==
    \E k \in DOMAIN ownerTasks :
        /\ ownerTasks[k].pc = "start"
        /\ NodeOf(k) # localNodeID
        /\ IF ~pw.AllowOutOfOrderWrites /\ ~Empty(hh, k[2], NodeOf(k))
           THEN /\ ownerTasks' = [ownerTasks EXCEPT ![k].pc = "queue",
                                                    ![k].queueEmpty = Some(FALSE)]
                /\ pw' = [pw EXCEPT !.stats.PointWriteReqHH = @ + Len(PointsOf(k))]
           ELSE /\ ownerTasks' =
                       [ownerTasks EXCEPT ![k].pc = "write",
                                          ![k].queueEmpty = IF pw.AllowOutOfOrderWrites
                                                            THEN None ELSE Some(TRUE)]
                /\ pw' = [pw EXCEPT !.stats.PointWriteReqRemote = @ + Len(PointsOf(k))]
        /\ UNCHANGED <<data, now, panicked, localNodeID, subs, calls, shardTasks, hh,
                       delivered, leaseVars, lockVars>>

\* HintedHandoff.WriteShard behind a non-empty queue answers.
OwnerQueues ==
    \E k \in DOMAIN ownerTasks, hherr \in HandoffErrors :
        /\ ownerTasks[k].pc = "queue"
        /\ hh' = IF hherr = NilErr THEN Enqueue(hh, k[2], NodeOf(k), k[1]) ELSE hh
        /\ OwnerEnds(k, QueuedResult(hherr), "HintedHandoff.WriteShard")
        /\ UNCHANGED <<data, now, pw, panicked, localNodeID, subs, calls, delivered,
                       leaseVars, lockVars>>

\* ShardWriter.WriteShard answers: the owner has the points, or the write
\* failed; after a retryable failure the points go to the hinted handoff.
OwnerWritesRemote ==
    \E k \in DOMAIN ownerTasks, err \in ShardWriterErrors :
        /\ ownerTasks[k].pc = "write"
        /\ IF err # NilErr /\ IsRetryable(err)
           THEN /\ ownerTasks' = [ownerTasks EXCEPT
                                       ![k].pc = "handoff", ![k].err = err,
                                       ![k].invoked = @ \cup {"ShardWriter.WriteShard"}]
                /\ pw' = [pw EXCEPT !.stats.PointWriteReqHH = @ + Len(PointsOf(k))]
                /\ UNCHANGED <<shardTasks, delivered>>
           ELSE /\ OwnerEnds(k, err, "ShardWriter.WriteShard")
                /\ delivered' = IF err = NilErr
                                THEN Deliver(delivered, k[2], NodeOf(k), k[1], "direct")
                                ELSE delivered
                /\ UNCHANGED pw
        /\ UNCHANGED <<data, now, panicked, localNodeID, subs, calls, hh, leaseVars, lockVars>>

\* HintedHandoff.WriteShard after a retryable failure answers.
OwnerHandsOff ==
    \E k \in DOMAIN ownerTasks, hherr \in HandoffErrors :
        /\ ownerTasks[k].pc = "handoff"
        /\ hh' = IF hherr = NilErr THEN Enqueue(hh, k[2], NodeOf(k), k[1]) ELSE hh
        /\ OwnerEnds(k, HandoffResult(shardTasks[<<k[1], k[2]>>].consistency,
                                      ownerTasks[k].err, hherr),
                     "HintedHandoff.WriteShard")
        /\ UNCHANGED <<data, now, pw, panicked, localNodeID, subs, calls, delivered,
                       leaseVars, lockVars>>

\* The select of the loop over the owners, for the goroutine of one shard:
\* the closing channel, the timer and the response channel.
Waiting(t) == t.pc = "wait" /\ t.received < Len(t.shard.Owners)

ShardTimerFires ==
    \E k \in DOMAIN shardTasks :
        /\ shardTasks[k].pc = "wait"
        /\ shardTasks[k].timer = "running"
        /\ shardTasks' = [shardTasks EXCEPT ![k].timer = "fired"]
        /\ UNCHANGED <<data, now, pw, panicked, localNodeID, subs, calls, ownerTasks, hh,
                       delivered, leaseVars, lockVars>>

ShardSeesClosing ==
    \E k \in DOMAIN shardTasks :
        /\ Waiting(shardTasks[k])
        /\ pw.closing = "closed"
        /\ ShardEnds(k, shardTasks[k], ErrWriteFailed)
        /\ UNCHANGED <<data, now, pw, panicked, localNodeID, subs, ownerTasks, hh,
                       delivered, leaseVars, lockVars>>

ShardTimesOut ==
    \E k \in DOMAIN shardTasks :
        /\ Waiting(shardTasks[k])
        /\ shardTasks[k].timer = "fired"
        /\ pw' = [pw EXCEPT !.stats.WriteTimeout = @ + 1]
        /\ ShardEnds(k, shardTasks[k], ErrTimeout)
        /\ UNCHANGED <<data, now, panicked, localNodeID, subs, ownerTasks, hh, delivered,
                       leaseVars, lockVars>>

\* The shard's goroutine after it took the result from the channel.
ShardReceived(k, result, t) ==
    /\ pw' = [pw EXCEPT !.stats.WriteErr = IF result.Err # NilErr THEN @ + 1 ELSE @,
                        !.stats.WriteOK = IF t.pc = "done" THEN @ + 1 ELSE @]
    /\ IF t.pc = "done"
       THEN ShardEnds(k, t, NilErr)
       ELSE shardTasks' = [shardTasks EXCEPT ![k] = t] /\ UNCHANGED calls

ShardReceives ==
    \E k \in DOMAIN shardTasks :
        /\ Waiting(shardTasks[k])
        /\ Len(shardTasks[k].ch) > 0
        /\ ShardReceived(k, Head(shardTasks[k].ch),
                         Collected([shardTasks[k] EXCEPT !.ch = Tail(@)],
                                   Head(shardTasks[k].ch)))
        /\ UNCHANGED <<data, now, panicked, localNodeID, subs, ownerTasks, hh, delivered,
                       leaseVars, lockVars>>

\* Every owner has reported and the required number was not reached.
ShardReturns ==
    \E k \in DOMAIN shardTasks :
        /\ shardTasks[k].pc = "wait"
        /\ shardTasks[k].received = Len(shardTasks[k].shard.Owners)
        /\ pw' = [pw EXCEPT !.stats.WritePartial =
                                IF shardTasks[k].wrote > 0 THEN @ + 1 ELSE @]
        /\ ShardEnds(k, shardTasks[k], Returned(shardTasks[k]))
        /\ UNCHANGED <<data, now, panicked, localNodeID, subs, ownerTasks, hh, delivered,
                       leaseVars, lockVars>>

\* ------------------------------------------- WritePointsPrivilegedWithContext
\* Largest number of WritePoints calls of a behaviour.
MaxCalls == 2
\* Largest number of subscriber channels registered with the writer.
MaxSubscribers == 2

\* A call that returned err before any goroutine was started.  The field
\* atFire is history: what the timer of the call found when it fired.
FailedCall(database, retentionPolicy, consistencyLevel, points, err) ==
    [database |-> database, retentionPolicy |-> retentionPolicy,
     consistencyLevel |-> consistencyLevel, points |-> points,
     shardMappings |-> EmptyMapping, ch |-> <<>>, received |-> 0, err |-> NilErr,
     timer |-> "idle", atFire |-> None, pc |-> "done", ret |-> err]

\* A call that has mapped its points and started the goroutines of its
\* shards; it is about to send the request to the subscribers.
MappedCall(database, retentionPolicy, consistencyLevel, points, mapping) ==
    [database |-> database, retentionPolicy |-> retentionPolicy,
     consistencyLevel |-> consistencyLevel, points |-> points,
     shardMappings |-> mapping, ch |-> <<>>, received |-> 0, err |-> NilErr,
     timer |-> "idle", atFire |-> None, pc |-> "broadcast", ret |-> NilErr]

ShardKeys(c, mapping) == {<<c, s>> : s \in DOMAIN mapping.Points}
OwnerKeys(c, mapping) ==
    UNION {{<<c, s, i>> : i \in 1 .. Len(mapping.Shards[s].Owners)} :
              s \in DOMAIN mapping.Points}

\* The call after MapShards answered r: the counters of the request, then
\* the error of MapShards or one goroutine per shard, each with one
\* goroutine per owner.
WritePointsMapped(database, retentionPolicy, consistencyLevel, points, r) ==
    /\ r.data.MaxShardGroupID <= MaxGroups
    /\ data' = r.data
    /\ pw' = [pw EXCEPT !.stats.WriteReq = @ + 1,
                        !.stats.PointWriteReq = @ + Len(points),
                        !.stats.WriteDropped = @ + r.writeDropped]
    /\ IF r.err # NilErr
       THEN /\ calls' = Append(calls, FailedCall(database, retentionPolicy,
                                                 consistencyLevel, points, r.err))
            /\ UNCHANGED <<shardTasks, ownerTasks>>
       ELSE /\ calls' = Append(calls, MappedCall(database, retentionPolicy,
                                                 consistencyLevel, points, r.mapping))
            /\ shardTasks' =
                   [k \in DOMAIN shardTasks \cup ShardKeys(Len(calls) + 1, r.mapping) |->
                      IF k \in DOMAIN shardTasks THEN shardTasks[k]
                      ELSE NewShardTask(r.mapping.Shards[k[2]], consistencyLevel,
                                        r.mapping.Points[k[2]])]
            /\ ownerTasks' =
                   [k \in DOMAIN ownerTasks \cup OwnerKeys(Len(calls) + 1, r.mapping) |->
                      IF k \in DOMAIN ownerTasks THEN ownerTasks[k]
                      ELSE [pc |-> "start", err |-> NilErr, queueEmpty |-> None,
                            invoked |-> {}]]

\* WritePoints is called: with no retention policy named the default one
\* of the database is taken, and the points are mapped to shards.
WritePointsStep(databases, policies, levels, requests) ==
    \E database \in databases, policy \in policies, consistencyLevel \in levels,
       points \in requests :
        /\ Len(calls) < MaxCalls
        /\ IF policy = "" /\ DatabaseIndex(data, database) = 0
           THEN /\ calls' = Append(calls, FailedCall(database, policy, consistencyLevel,
                                                     points, "database not found"))
                /\ pw' = [pw EXCEPT !.stats.WriteReq = @ + 1,
                                    !.stats.PointWriteReq = @ + Len(points)]
                /\ UNCHANGED <<data, shardTasks, ownerTasks>>
           ELSE WritePointsMapped(
                    database,
                    IF policy = ""
                    THEN data.Databases[DatabaseIndex(data, database)].DefaultRetentionPolicy
                    ELSE policy,
                    consistencyLevel, points,
                    MapShards(data, database,
                              IF policy = ""
                              THEN data.Databases[DatabaseIndex(data, database)]
                                       .DefaultRetentionPolicy
                              ELSE policy,
                              points, now))
        /\ UNCHANGED <<now, panicked, localNodeID, subs, hh, delivered, leaseVars, lockVars>>

\* Sends with a nil channel passed over without a count.
RECURSIVE SendsSkippingNil(_, _, _, _, _)
SendsSkippingNil(subPoints, k, lens, ok, dropped) ==
    IF k > Len(subPoints) THEN {[subs |-> lens, ok |-> ok, dropped |-> dropped]}
    ELSE IF subPoints[k] = NilChan THEN SendsSkippingNil(subPoints, k + 1, lens, ok, dropped)
    ELSE IF lens[subPoints[k]] < ChanCap(subPoints[k])
    THEN SendsSkippingNil(subPoints, k + 1, [lens EXCEPT ![subPoints[k]] = @ + 1],
                          ok + 1, dropped)
    ELSE IF ChanCap(subPoints[k]) = 0
    THEN SendsSkippingNil(subPoints, k + 1, lens, ok + 1, dropped)
             \cup SendsSkippingNil(subPoints, k + 1, lens, ok, dropped + 1)
    ELSE SendsSkippingNil(subPoints, k + 1, lens, ok, dropped + 1)

\* The non-blocking sends of the request to the channels of subPoints from
\* the k-th on: every way they can go, as the channel lengths left and the
\* numbers of sends that succeeded and that took the default case.  A send
\* to a nil channel or to a full buffer takes the default case; a send to an
\* unbuffered channel succeeds when a receiver waits on it.
RECURSIVE Sends(_, _, _, _, _)
Sends(subPoints, k, lens, ok, dropped) ==
    IF k > Len(subPoints) THEN {[subs |-> lens, ok |-> ok, dropped |-> dropped]}
    ELSE IF subPoints[k] = NilChan THEN Sends(subPoints, k + 1, lens, ok, dropped + 1)
    ELSE IF lens[subPoints[k]] < ChanCap(subPoints[k])
    THEN Sends(subPoints, k + 1, [lens EXCEPT ![subPoints[k]] = @ + 1], ok + 1, dropped)
    ELSE IF ChanCap(subPoints[k]) = 0
    THEN Sends(subPoints, k + 1, lens, ok + 1, dropped)
             \cup Sends(subPoints, k + 1, lens, ok, dropped + 1)
    ELSE Sends(subPoints, k + 1, lens, ok, dropped + 1)

\* The call sends the request to the subscribers under the read lock,
\* prepares the error for the points that mapping dropped and starts the
\* timer of the write.
Broadcasts ==
    \E c \in DOMAIN calls, o \in Sends(pw.subPoints, 1, subs, 0, 0) :
        /\ calls[c].pc = "broadcast"
        /\ subs' = o.subs
        /\ pw' = [pw EXCEPT !.stats.SubWriteOK = @ + o.ok,
                            !.stats.SubWriteDrop = @ + o.dropped]
        /\ calls' = [calls EXCEPT
               ![c].err = IF Len(calls[c].shardMappings.Dropped) > 0
                          THEN PartialWriteError("points beyond retention policy",
                                                 Len(calls[c].shardMappings.Dropped))
                          ELSE NilErr,
               ![c].timer = "running",
               ![c].pc = "wait"]
        /\ UNCHANGED <<data, now, panicked, localNodeID, shardTasks, ownerTasks, hh,
                       delivered, leaseVars, lockVars>>

\* The select of the loop over the shards of the call: the closing
\* channel, the timer and the channel of the shards' results.
CallWaiting(call) ==
    call.pc = "wait" /\ call.received < Cardinality(DOMAIN call.shardMappings.Points)

\* The shards of call c whose result has been sent to the channel of c.
Arrived(c) ==
    {s \in DOMAIN calls[c].shardMappings.Points : shardTasks[<<c, s>>].pc = "done"}

\* The timer of the write fires; atFire keeps how many results had arrived
\* and how many of them the loop had taken from the channel.
CallTimerFires ==
    \E c \in DOMAIN calls :
        /\ calls[c].pc = "wait"
        /\ calls[c].timer = "running"
        /\ calls' = [calls EXCEPT ![c].timer = "fired",
                                  ![c].atFire = Some([arrived |-> Cardinality(Arrived(c)),
                                                      received |-> calls[c].received])]
        /\ UNCHANGED <<data, now, pw, panicked, localNodeID, subs, shardTasks, ownerTasks,
                       hh, delivered, leaseVars, lockVars>>

CallSeesClosing ==
    \E c \in DOMAIN calls :
        /\ CallWaiting(calls[c])
        /\ pw.closing = "closed"
        /\ calls' = [calls EXCEPT ![c].pc = "done", ![c].ret = ErrWriteFailed]
        /\ UNCHANGED <<data, now, pw, panicked, localNodeID, subs, shardTasks, ownerTasks,
                       hh, delivered, leaseVars, lockVars>>

\* CallTimesOut returning what the shards that answered allow.
CallTimesOutPartial ==
    \E c \in DOMAIN calls :
        /\ CallWaiting(calls[c])
        /\ calls[c].timer = "fired"
        /\ pw' = [pw EXCEPT !.stats.WriteTimeout = @ + 1]
        /\ calls' = [calls EXCEPT ![c].pc = "done", ![c].ret = calls[c].err]
        /\ UNCHANGED <<data, now, panicked, localNodeID, subs, shardTasks, ownerTasks,
                       hh, delivered, leaseVars, lockVars>>

\* The select takes the timer: the write timed out.
CallTimesOut ==
    \E c \in DOMAIN calls :
        /\ CallWaiting(calls[c])
        /\ calls[c].timer = "fired"
        /\ pw' = [pw EXCEPT !.stats.WriteTimeout = @ + 1]
        /\ calls' = [calls EXCEPT ![c].pc = "done", ![c].ret = ErrTimeout]
        /\ UNCHANGED <<data, now, panicked, localNodeID, subs, shardTasks, ownerTasks,
                       hh, delivered, leaseVars, lockVars>>

\* CallReceives with the error of a shard counted like nil.
CallReceivesAnyResult ==
    \E c \in DOMAIN calls :
        /\ CallWaiting(calls[c])
        /\ Len(calls[c].ch) > 0
        /\ calls' = [calls EXCEPT ![c].ch = Tail(@), ![c].received = @ + 1]
        /\ UNCHANGED <<data, now, pw, panicked, localNodeID, subs, shardTasks, ownerTasks,
                       hh, delivered, leaseVars, lockVars>>

\* The result of a shard arrives: an error ends the call, nil is counted.
CallReceives ==
    \E c \in DOMAIN calls :
        /\ CallWaiting(calls[c])
        /\ Len(calls[c].ch) > 0
        /\ calls' = IF Head(calls[c].ch) # NilErr
                    THEN [calls EXCEPT ![c].ch = Tail(@), ![c].pc = "done",
                                       ![c].ret = Head(calls[c].ch)]
                    ELSE [calls EXCEPT ![c].ch = Tail(@), ![c].received = @ + 1]
        /\ UNCHANGED <<data, now, pw, panicked, localNodeID, subs, shardTasks, ownerTasks,
                       hh, delivered, leaseVars, lockVars>>

\* Every shard answered nil: the call returns the error prepared for the
\* dropped points, or nil.
CallReturns ==
    \E c \in DOMAIN calls :
        /\ calls[c].pc = "wait"
        /\ calls[c].received = Cardinality(DOMAIN calls[c].shardMappings.Points)
        /\ calls' = [calls EXCEPT ![c].pc = "done", ![c].ret = calls[c].err]
        /\ UNCHANGED <<data, now, pw, panicked, localNodeID, subs, shardTasks, ownerTasks,
                       hh, delivered, leaseVars, lockVars>>

\* ------------------------------------------- Open, Close, AddWriteSubscriber
Open ==
    /\ pw' = [pw EXCEPT !.closing = "open"]
    /\ UNCHANGED <<data, now, panicked, localNodeID, subs, calls, shardTasks, ownerTasks,
                   hh, delivered, leaseVars, lockVars>>

\* Close closes the closing channel and drops the subscribers; closing a
\* channel that is already closed panics, with the lock released by the
\* deferred Unlock and nothing else done.
Close ==
    /\ IF pw.closing = "closed"
       THEN panicked' = TRUE /\ UNCHANGED pw
       ELSE pw' = [pw EXCEPT !.closing = "closed", !.subPoints = <<>>]
                /\ UNCHANGED panicked
    /\ UNCHANGED <<data, now, localNodeID, subs, calls, shardTasks, ownerTasks, hh,
                   delivered, leaseVars, lockVars>>

AddWriteSubscriber(chans) ==
    \E c \in chans :
        /\ Len(pw.subPoints) < MaxSubscribers
        /\ pw' = [pw EXCEPT !.subPoints = Append(@, c)]
        /\ UNCHANGED <<data, now, panicked, localNodeID, subs, calls, shardTasks,
                       ownerTasks, hh, delivered, leaseVars, lockVars>>

\* ------------------------------------------------------------ collaborators
\* The subscriber service takes a request from the buffer of a channel.
SubscriberReceives ==
    \E c \in SubChans :
        /\ subs[c] > 0
        /\ subs' = [subs EXCEPT ![c] = @ - 1]
        /\ UNCHANGED <<data, now, pw, panicked, localNodeID, calls, shardTasks, ownerTasks,
                       hh, delivered, leaseVars, lockVars>>

\* The hinted-handoff service replays the head of a queue to its owner.
HandoffReplays ==
    \E q \in DOMAIN hh :
        /\ Len(hh[q]) > 0
        /\ hh' = [hh EXCEPT ![q] = Tail(@)]
        /\ delivered' = Deliver(delivered, q[1], q[2], Head(hh[q]), "hh")
        /\ UNCHANGED <<data, now, pw, panicked, localNodeID, subs, calls, shardTasks,
                       ownerTasks, leaseVars, lockVars>>

\* --------------------------------------------------------------- SpecShard
\* One call of WritePoints for one point of a shard with one to three
\* owners, the first of them the writer's own node: every order of the
\* owners' answers, with and without points of earlier requests in the
\* hinted-handoff queues of the remote owners, and the timer of the shard's
\* write (the timer of the call runs in SpecPoints).
\* Largest number of owners of a shard where the write of a shard is checked.
MaxOwners == 3

RECURSIVE WithDataNodes(_, _)
WithDataNodes(d, n) ==
    IF n = 0 THEN d
    ELSE CreateDataNode(WithDataNodes(d, n - 1), "d", <<"a", "b", "c", "d", "e">>[n]).data

\* A cluster of n data nodes with the database db0 and its default policy
\* rp0: replicaN copies, shard groups of an hour, the given duration.
Cluster(n, replicaN, duration) ==
    CreateRetentionPolicy(CreateDatabase(WithDataNodes(EmptyData, n), "db0").data,
                          "db0", Policy("rp0", replicaN, duration, Hour), TRUE).data

\* The queues of the hinted handoff with points of an earlier request
\* (call 0) queued for the owners of the set, for shard 1.
QueuedFor(owners) == [q \in {<<1, o>> : o \in owners} |-> <<0>>]

InitShard ==
    /\ \E n \in 1 .. MaxOwners : data = Cluster(n, n, 0)
    /\ now = NowBase
    /\ \E allow \in BOOLEAN : pw = [NewPointsWriter EXCEPT !.AllowOutOfOrderWrites = allow]
    /\ panicked = FALSE
    /\ localNodeID = 1
    /\ subs = [c \in SubChans |-> 0]
    /\ calls = <<>>
    /\ shardTasks = <<>>
    /\ ownerTasks = <<>>
    /\ \E owners \in SUBSET (2 .. data.MaxNodeID) : hh = QueuedFor(owners)
    /\ delivered = <<>>
    /\ LeasesIdle
    /\ LocksIdle

TWritePoints ==
    calls = <<>> /\ WritePointsStep({"db0"}, {"rp0"}, ConsistencyLevels, {<<Point(NowBase, 0)>>})

NextShard ==
    \/ TWritePoints
    \/ Broadcasts
    \/ OwnerWritesLocal
    \/ OwnerChecksQueue
    \/ OwnerQueues
    \/ OwnerWritesRemote
    \/ OwnerHandsOff
    \/ ShardTimerFires
    \/ ShardTimesOut
    \/ ShardReceives
    \/ ShardReturns
    \/ CallReceives
    \/ CallReturns

SpecShard == InitShard /\ [][NextShard]_vars

\* The owner goroutines of the shard goroutine k that have ended, and the
\* errors they sent.
OwnersDone(k) ==
    {i \in 1 .. Len(shardTasks[k].shard.Owners) : ownerTasks[<<k[1], k[2], i>>].pc = "done"}
SentBy(k, i) == ownerTasks[<<k[1], k[2], i>>].err
Successes(k) == Cardinality({i \in OwnersDone(k) : SentBy(k, i) = NilErr})
\* The number of successes the consistency level of the shard goroutine k
\* asks for, as the specification gives it.
RequiredOf(k) ==
    LET n == Len(shardTasks[k].shard.Owners)
    IN CASE shardTasks[k].consistency \in {"any", "one"} -> 1
         [] shardTasks[k].consistency = "quorum" -> (n \div 2) + 1
         [] shardTasks[k].consistency = "all" -> n
AllReported(k) ==
    /\ shardTasks[k].pc = "done"
    /\ shardTasks[k].received = Len(shardTasks[k].shard.Owners)

\* C21: the write of a shard with n >= 1 owners returns nil exactly when it
\* has received the required number of successes (1 for any and one,
\* n/2 + 1 for quorum, n for all), and it does so on receiving the last of
\* them, whatever the other owners do; once all n owners have reported it
\* has returned nil if the successes reached the required number,
\* ErrPartialWrite if there were some but fewer, and otherwise
\* "write failed: e" for an error e that an owner sent and that is not
\* ErrQueueBlocked, or ErrWriteFailed if there is no such error.
C21_RequiredSuccessesDecide ==
    \A k \in DOMAIN shardTasks :
        LET t == shardTasks[k]
            n == Len(t.shard.Owners)
        IN n >= 1 =>
             /\ t.wrote <= Successes(k)
             /\ (t.wrote >= RequiredOf(k)) <=> (t.pc = "done" /\ t.ret = NilErr)
             /\ (t.pc = "done" /\ t.ret = ErrPartialWrite) => AllReported(k)
             /\ AllReported(k) =>
                  /\ t.wrote = Min(Successes(k), RequiredOf(k))
                  /\ Successes(k) >= RequiredOf(k) => t.ret = NilErr
                  /\ (0 < Successes(k) /\ Successes(k) < RequiredOf(k))
                        => t.ret = ErrPartialWrite
                  /\ Successes(k) = 0 =>
                        IF \E i \in 1 .. n : SentBy(k, i) # ErrQueueBlocked
                        THEN \E i \in 1 .. n :
                                /\ SentBy(k, i) # ErrQueueBlocked
                                /\ t.ret = WriteFailedError(SentBy(k, i))
                        ELSE t.ret = ErrWriteFailed

\* Three owners under quorum: two have written, the direct write to the
\* third failed with a retryable error and the hinted handoff took its
\* points, all three have reported, and the write returned nil.
C21_Witness ==
    \E k \in DOMAIN shardTasks :
        /\ Len(shardTasks[k].shard.Owners) = 3
        /\ shardTasks[k].consistency = "quorum"
        /\ AllReported(k)
        /\ Successes(k) = 2
        /\ \E i \in 1 .. 3 :
               /\ SentBy(k, i) = "connection refused"
               /\ k[1] \in Range(Get(hh, <<k[2], shardTasks[k].shard.Owners[i]>>, <<>>))
        /\ shardTasks[k].ret = NilErr

\* The points of call c are in the hinted-handoff queue of the owner of the
\* goroutine k, or were replayed from it.
Queued(k) ==
    \/ k[1] \in Range(Get(hh, <<k[2], NodeOf(k)>>, <<>>))
    \/ [call |-> k[1], via |-> "hh"] \in Range(Get(delivered, <<k[2], NodeOf(k)>>, <<>>))

\* The owners of the shard goroutine k other than the i-th that sent nil.
OtherSuccesses(k, i) ==
    Cardinality({j \in OwnersDone(k) \ {i} : SentBy(k, j) = NilErr})

\* C22: with AllowOutOfOrderWrites false, the goroutine of a remote owner
\* that found the owner's hinted-handoff queue non-empty never calls
\* ShardWriter.WriteShard and ends only through HintedHandoff.WriteShard;
\* when that call succeeded the points are queued, the result the goroutine
\* sent is an error (it is no success of the shard's write), and the
\* shard's write, once all owners have reported, has returned nil if the
\* other owners reached the required number.
C22_QueueBypassesDirectWrite ==
    ~pw.AllowOutOfOrderWrites =>
        \A k \in DOMAIN ownerTasks :
            (NodeOf(k) # localNodeID /\ ownerTasks[k].queueEmpty = Some(FALSE)) =>
                /\ "ShardWriter.WriteShard" \notin ownerTasks[k].invoked
                /\ ownerTasks[k].pc \in {"queue", "done"}
                /\ ownerTasks[k].pc = "done" =>
                     /\ ownerTasks[k].invoked = {"HintedHandoff.WriteShard"}
                     /\ Queued(k) <=> ownerTasks[k].err = ErrHintedHandoffQueueNotEmpty
                     /\ ownerTasks[k].err # NilErr
                     /\ (/\ AllReported(<<k[1], k[2]>>)
                         /\ OtherSuccesses(<<k[1], k[2]>>, k[3]) >= RequiredOf(<<k[1], k[2]>>))
                            => shardTasks[<<k[1], k[2]>>].ret = NilErr

\* A remote owner's points went to the queue behind the points of an
\* earlier request, the other two owners wrote, all have reported and the
\* quorum write returned nil.
C22_Witness ==
    /\ ~pw.AllowOutOfOrderWrites
    /\ \E k \in DOMAIN ownerTasks :
           /\ ownerTasks[k].queueEmpty = Some(FALSE)
           /\ ownerTasks[k].err = ErrHintedHandoffQueueNotEmpty
           /\ Queued(k)
           /\ AllReported(<<k[1], k[2]>>)
           /\ shardTasks[<<k[1], k[2]>>].consistency = "quorum"
           /\ OtherSuccesses(<<k[1], k[2]>>, k[3]) = 2
           /\ shardTasks[<<k[1], k[2]>>].ret = NilErr

\* The i-th owner of the shard goroutine k has the points (written to the
\* local store or by ShardWriter.WriteShard), or the hinted handoff has
\* accepted them for it.
Written(k, i) ==
    /\ i \in OwnersDone(k)
    /\ SentBy(k, i) = NilErr
    /\ "HintedHandoff.WriteShard" \notin ownerTasks[<<k[1], k[2], i>>].invoked
HandedOff(k, i) == i \in OwnersDone(k) /\ Queued(<<k[1], k[2], i>>)

\* C23: under consistency level any an owner whose points the hinted
\* handoff accepted counts as a success, after a retryable failure of the
\* direct write and behind a non-empty queue alike: once all owners have
\* reported, the write of the shard has returned nil if the points of at
\* least one owner were written or accepted by the hinted handoff; under
\* one, quorum and all only written owners count.
C23_HandoffCountsUnderAny ==
    \A k \in DOMAIN shardTasks :
        LET owners == 1 .. Len(shardTasks[k].shard.Owners)
        IN AllReported(k) =>
             IF shardTasks[k].consistency = "any"
             THEN (\E i \in owners : Written(k, i) \/ HandedOff(k, i))
                      => shardTasks[k].ret = NilErr
             ELSE (shardTasks[k].ret = NilErr)
                      <=> Cardinality({i \in owners : Written(k, i)}) >= RequiredOf(k)

\* The part of C23 that is about the handoff after a retryable failure of
\* the direct write.
C23_AfterRetryableFailure ==
    \A k \in DOMAIN shardTasks :
        LET owners == 1 .. Len(shardTasks[k].shard.Owners)
        IN AllReported(k) =>
             IF shardTasks[k].consistency = "any"
             THEN (\E i \in owners :
                      \/ Written(k, i)
                      \/ /\ HandedOff(k, i)
                         /\ "ShardWriter.WriteShard" \in ownerTasks[<<k[1], k[2], i>>].invoked)
                      => shardTasks[k].ret = NilErr
             ELSE (shardTasks[k].ret = NilErr)
                      <=> Cardinality({i \in owners : Written(k, i)}) >= RequiredOf(k)

\* C24: when the write to the local store of a shard fails with
\* ErrShardDeletion and so makes the write of the shard fail, a WritePoints
\* call for that shard alone returns the partial-write error "shard N is
\* pending deletion" with Dropped = the number of points mapped to the
\* shard, not a write-failed error.
C24_ShardDeletionIsPartialWrite ==
    \A k \in DOMAIN shardTasks :
        (/\ AllReported(k)
         /\ Successes(k) = 0
         /\ shardTasks[k].writeError = ErrShardDeletion
         /\ \E i \in OwnersDone(k) :
                /\ shardTasks[k].shard.Owners[i] = localNodeID
                /\ SentBy(k, i) = ErrShardDeletion
         /\ Cardinality(DOMAIN calls[k[1]].shardMappings.Points) = 1
         /\ calls[k[1]].pc = "done")
            => calls[k[1]].ret =
                   PartialWriteError("shard " \o ToString(k[2]) \o " is pending deletion",
                                     Len(shardTasks[k].points))

\* -------------------------------------------------------------- SpecPoints
\* One call of WritePoints on a cluster of two data nodes with one copy of
\* each shard: a shard group has two shards, shard 1 on the writer's own
\* node and shard 2 on node 2.  The policy keeps an hour, so that a point
\* older than that is dropped.  The timers of the shards and of the call
\* run; the writer stays open and has no subscriber (SpecSubs has both).
OldPoint == Point(NowBase - Hour - 1, 0)
PointsRequests ==
    {<<Point(NowBase, 0)>>,
     <<Point(NowBase, 0), Point(NowBase, 1)>>,
     <<OldPoint>>,
     <<OldPoint, Point(NowBase, 1)>>,
     <<Point(NowBase, 0), OldPoint, Point(NowBase, 1)>>}

InitPoints ==
    /\ data = Cluster(2, 1, Hour)
    /\ now = NowBase
    /\ WriterIdle
    /\ LeasesIdle
    /\ LocksIdle

XWritePoints ==
    calls = <<>> /\ WritePointsStep({"db0"}, {"", "rp1"}, {"one"}, PointsRequests)

NextPoints ==
    \/ XWritePoints
    \/ Broadcasts
    \/ OwnerWritesLocal
    \/ OwnerChecksQueue
    \/ OwnerWritesRemote
    \/ OwnerHandsOff
    \/ ShardTimerFires
    \/ ShardTimesOut
    \/ ShardReceives
    \/ ShardReturns
    \/ CallTimerFires
    \/ CallTimesOut
    \/ CallReceives
    \/ CallReturns

SpecPoints == InitPoints /\ [][NextPoints]_vars

\* ---------------------------------------------------------------- SpecSubs
\* The writer of a one-node cluster with its subscribers: channels are
\* registered, the writer is closed and opened again, and one call of
\* WritePoints for a point inside or outside the policy's hour runs
\* meanwhile.
InitSubs ==
    /\ data = Cluster(1, 1, Hour)
    /\ now = NowBase
    /\ WriterIdle
    /\ LeasesIdle
    /\ LocksIdle

BWritePoints ==
    calls = <<>> /\ WritePointsStep({"db0"}, {"rp0"}, {"one"}, {<<Point(NowBase, 0)>>, <<OldPoint>>})
BAddWriteSubscriber == AddWriteSubscriber({NilChan} \cup SubChans)

NextSubs ==
    \/ ~panicked /\ BWritePoints
    \/ ~panicked /\ Broadcasts
    \/ ~panicked /\ OwnerWritesLocal
    \/ ~panicked /\ ShardTimerFires
    \/ ~panicked /\ ShardSeesClosing
    \/ ~panicked /\ ShardTimesOut
    \/ ~panicked /\ ShardReceives
    \/ ~panicked /\ ShardReturns
    \/ ~panicked /\ CallTimerFires
    \/ ~panicked /\ CallSeesClosing
    \/ ~panicked /\ CallTimesOut
    \/ ~panicked /\ CallReceives
    \/ ~panicked /\ CallReturns
    \/ ~panicked /\ Open
    \/ ~panicked /\ Close
    \/ ~panicked /\ BAddWriteSubscriber
    \/ ~panicked /\ SubscriberReceives

SpecSubs == InitSubs /\ [][NextSubs]_vars

\* The calls that passed MapShards and have returned, their shards, what a
\* shard's goroutine sent to the call, and the number of points of the
\* request that were mapped to no shard.
ReturnedCalls == {c \in DOMAIN calls : calls[c].pc = "done" /\ calls[c].timer # "idle"}
ShardsOf(c) == DOMAIN calls[c].shardMappings.Points
ShardDone(c, s) == shardTasks[<<c, s>>].pc = "done"
SentToCall(c, s) ==
    ShardResult(shardTasks[<<c, s>>].shard, shardTasks[<<c, s>>].points,
                shardTasks[<<c, s>>].ret)
AllShardsNil(c) == \A s \in ShardsOf(c) : ShardDone(c, s) /\ SentToCall(c, s) = NilErr
RECURSIVE MappedCount(_, _)
MappedCount(mapping, shards) ==
    IF shards = {} THEN 0
    ELSE LET s == CHOOSE x \in shards : TRUE
         IN Len(mapping.Points[s]) + MappedCount(mapping, shards \ {s})
DroppedCount(c) ==
    Len(calls[c].points) - MappedCount(calls[c].shardMappings, ShardsOf(c))
BeyondRetention(n) == PartialWriteError("points beyond retention policy", n)

\* C26: a WritePoints call that passed the mapping returns the first
\* non-nil result of a shard that it receives, without waiting for the
\* other shards; it returns the partial-write error "points beyond
\* retention policy" with Dropped = the number of dropped points exactly
\* when the mapping dropped a point and every shard's write returned nil,
\* and nil exactly when no point was dropped and every shard's write
\* returned nil (the timer of the call apart; the writer is open).
C26_FailFastThenDropped ==
    \A c \in ReturnedCalls :
        /\ calls[c].ret = NilErr <=>
               (AllShardsNil(c) /\ DroppedCount(c) = 0
                   /\ calls[c].received = Cardinality(ShardsOf(c)))
        /\ (\E n \in 0 .. Len(calls[c].points) : calls[c].ret = BeyondRetention(n)) <=>
               (AllShardsNil(c) /\ DroppedCount(c) > 0
                   /\ calls[c].received = Cardinality(ShardsOf(c)))
        /\ (AllShardsNil(c) /\ calls[c].ret # ErrTimeout) =>
               calls[c].ret = IF DroppedCount(c) > 0 THEN BeyondRetention(DroppedCount(c))
                              ELSE NilErr
        /\ ~AllShardsNil(c) =>
               \/ calls[c].ret = ErrTimeout /\ calls[c].timer = "fired"
               \/ /\ calls[c].received < Cardinality(ShardsOf(c))
                  /\ \E s \in ShardsOf(c) :
                         /\ ShardDone(c, s)
                         /\ SentToCall(c, s) # NilErr
                         /\ calls[c].ret = SentToCall(c, s)

\* A request of three points over two shards: one point was dropped, the
\* shard that answered first failed and the call returned its error while
\* the other shard was still being written.
C26_Witness ==
    \E c \in ReturnedCalls :
        /\ Cardinality(ShardsOf(c)) = 2
        /\ DroppedCount(c) = 1
        /\ \E s \in ShardsOf(c) : ~ShardDone(c, s)
        /\ \E s \in ShardsOf(c) : ShardDone(c, s) /\ calls[c].ret = SentToCall(c, s)
        /\ calls[c].ret = ErrPartialWrite \/ calls[c].ret = WriteFailedError("engine error")

\* ------------------------------------------------------------- SpecTimeout
\* The calls of SpecPoints under the scheduling the code relies on: the
\* goroutine of the call runs (its sends to the subscribers and its select
\* are taken when they can be) and the timer of the write fires.  Nothing
\* is assumed about the goroutines of the shards and of the owners: a write
\* to an owner, local, remote or through the hinted handoff, may block for
\* ever.
SpecTimeout ==
    /\ InitPoints
    /\ [][NextPoints]_vars
    /\ WF_vars(Broadcasts)
    /\ WF_vars(CallTimerFires)
    /\ WF_vars(CallTimesOut \/ CallReceives \/ CallReturns)

\* The results call c has taken from its channel.
Taken(c) == Cardinality(Arrived(c)) - Len(calls[c].ch)

\* Call c returned after its timer had fired with results still missing.
TimedCalls ==
    {c \in ReturnedCalls :
        /\ calls[c].atFire # None
        /\ calls[c].atFire[1].arrived < Cardinality(ShardsOf(c))}

\* The writes to shards that ended with the timer of the shard.
ShardTimeouts ==
    Cardinality({k \in DOMAIN shardTasks :
                    shardTasks[k].pc = "done" /\ shardTasks[k].ret = ErrTimeout})

\* C25 as stated: a call whose timer fired before every result of its
\* shards had arrived returns ErrTimeout and the writeTimeout counter is
\* incremented.
C25_TimerDecides ==
    \A c \in TimedCalls :
        calls[c].ret = ErrTimeout /\ pw.stats.WriteTimeout >= 1

\* C25 amended, the part about the value returned: after the timer fired
\* with results missing, a call that takes no further result from its
\* channel returns ErrTimeout whatever succeeded before, and the counter is
\* incremented for it; a call that returns anything else has taken a result
\* after the timer fired, and returns the error of a shard or, with every
\* shard answered nil, the error prepared for the dropped points.
C25_TimerCase ==
    \A c \in TimedCalls :
        /\ Taken(c) = calls[c].atFire[1].received =>
               /\ calls[c].ret = ErrTimeout
               /\ pw.stats.WriteTimeout >= ShardTimeouts + 1
        /\ calls[c].ret # ErrTimeout =>
               /\ Taken(c) > calls[c].atFire[1].received
               /\ \/ /\ calls[c].received = Cardinality(ShardsOf(c))
                     /\ calls[c].ret = calls[c].err
                  \/ \E s \in Arrived(c) :
                        SentToCall(c, s) # NilErr /\ calls[c].ret = SentToCall(c, s)

\* C25 amended: every call of WritePoints returns, even when the writes to
\* the owners never answer, and the timer decides the value returned as
\* C25_TimerCase says.
C25_ReturnsAndTimerCase ==
    /\ []C25_TimerCase
    /\ \A c \in 1 .. MaxCalls :
           (c \in DOMAIN calls) ~> (c \in DOMAIN calls /\ calls[c].pc = "done")

\* One of two shards had answered nil when the timer fired; the owner of the
\* other never answered, no timer of a shard fired, and the call returned
\* ErrTimeout.
C25_Witness ==
    \E c \in TimedCalls :
        /\ calls[c].atFire[1].arrived = 1
        /\ calls[c].atFire[1].received = 1
        /\ \E k \in DOMAIN ownerTasks : k[1] = c /\ ownerTasks[k].pc = "start"
        /\ ShardTimeouts = 0
        /\ calls[c].ret = ErrTimeout
        /\ pw.stats.WriteTimeout = 1

\* ------------------------------------------------------------------- C27
\* The call as the sends to the subscribers leave it: the error for the
\* dropped points, the timer started, the loop over the shards next.
Broadcast(call) ==
    [call EXCEPT !.err = IF Len(call.shardMappings.Dropped) > 0
                         THEN BeyondRetention(Len(call.shardMappings.Dropped))
                         ELSE NilErr,
                 !.timer = "running",
                 !.pc = "wait"]

\* The sends to the subscribers never block: whatever the subscribers
\* registered and the state of their channels, the sends have an outcome,
\* and every outcome counts each registered channel once, as sent or as
\* dropped.
SendsCountEverySubscriber ==
    /\ Sends(pw.subPoints, 1, subs, 0, 0) # {}
    /\ \A o \in Sends(pw.subPoints, 1, subs, 0, 0) :
           o.ok + o.dropped = Len(pw.subPoints)

\* The step of a call from the sends to the subscribers to its loop over
\* the shards: the two counters grow together by the number of subscribers
\* registered, and the call is left the same whatever was sent or dropped.
BroadcastStep ==
    \A c \in DOMAIN calls :
        (calls[c].pc = "broadcast" /\ calls'[c].pc # "broadcast") =>
            /\ pw'.stats.SubWriteOK + pw'.stats.SubWriteDrop =
                   pw.stats.SubWriteOK + pw.stats.SubWriteDrop + Len(pw.subPoints)
            /\ pw'.stats.SubWriteOK >= pw.stats.SubWriteOK
            /\ pw'.stats.SubWriteDrop >= pw.stats.SubWriteDrop
            /\ calls'[c] = Broadcast(calls[c])

\* What a call returns is decided by the writer being closed, the timer and
\* the results of its shards; the counters of the subscribers play no part.
ReturnIgnoresSubscribers ==
    \A c \in ReturnedCalls :
        \/ calls[c].ret = ErrWriteFailed
        \/ calls[c].ret = ErrTimeout
        \/ \E s \in Arrived(c) :
               SentToCall(c, s) # NilErr /\ calls[c].ret = SentToCall(c, s)
        \/ /\ AllShardsNil(c)
           /\ calls[c].ret = IF DroppedCount(c) > 0 THEN BeyondRetention(DroppedCount(c))
                             ELSE NilErr

\* C27: a call that passed the mapping of its points sends the request once
\* to every registered subscriber channel without blocking; subWriteOK +
\* subWriteDrop grows by the number of registered subscribers, and what the
\* call returns does not depend on what the subscribers took.
C27_SubscribersNeverBlockOrDecide ==
    /\ []SendsCountEverySubscriber
    /\ []ReturnIgnoresSubscribers
    /\ [][BroadcastStep]_vars

\* With a nil channel and an unbuffered channel registered, a request was
\* dropped on both and the write returned nil.
C27_Witness ==
    \E c \in ReturnedCalls :
        /\ pw.stats.SubWriteDrop = 2
        /\ pw.stats.SubWriteOK = 0
        /\ pw.stats.WriteReq = 1
        /\ calls[c].ret = NilErr

\* ------------------------------------------------------------------- C28
\* C28: every sequence of Open and Close completes without a panic, Close
\* after Close and Close on a writer never opened included.
C28_OpenCloseIdempotent == ~panicked

\* --------------------------------------------------------------- SpecOrder
\* Two requests for the same shard, the second made after the first has
\* returned, to a shard owned by the writer's node and by one remote node;
\* the goroutine of the remote owner of the first request may still be
\* running when the second is made.  The hinted-handoff service replays the
\* queues.
InitOrder ==
    /\ data = Cluster(2, 2, 0)
    /\ now = NowBase
    /\ WriterIdle
    /\ LeasesIdle
    /\ LocksIdle

QWritePoints ==
    /\ IF calls = <<>> THEN TRUE ELSE calls[Len(calls)].pc = "done"
    /\ WritePointsStep({"db0"}, {"rp0"}, {"one"}, {<<Point(NowBase, 0)>>})

NextOrder ==
    \/ QWritePoints
    \/ Broadcasts
    \/ OwnerWritesLocal
    \/ OwnerChecksQueue
    \/ OwnerQueues
    \/ OwnerWritesRemote
    \/ OwnerHandsOff
    \/ ShardReceives
    \/ ShardReturns
    \/ CallReceives
    \/ CallReturns
    \/ HandoffReplays

SpecOrder == InitOrder /\ [][NextOrder]_vars

\* ------------------------------------------------------------------- C29
\* C29: with AllowOutOfOrderWrites false, the points of a request are never
\* delivered to a remote owner by a direct write while the points of an
\* earlier request for the same shard and owner are in the owner's
\* hinted-handoff queue, or are put into it afterwards.
C29_PerOwnerFIFO ==
    ~pw.AllowOutOfOrderWrites =>
        \A q \in DOMAIN delivered :
            \A i \in 1 .. Len(delivered[q]) :
                delivered[q][i].via = "direct" =>
                    \A j \in 1 .. Len(Get(hh, q, <<>>)) :
                        hh[q][j] > delivered[q][i].call

\* ------------------------------------------------------------------ Leases
\* Largest number of clock ticks of a behaviour of the lease table.
LeaseTicks == 5
\* Largest node ID that asks for a lease.
LeaseNodes == 3

LeaseNames == {"continuous_querier", "monitor"}

ErrLeaseHeld == "another node has the lease"

\* Acquire with a lease taken over from the instant of its expiration on.
AcquireAtExpiration(l, name, nodeID, t) ==
    IF name \in DOMAIN l.m /\ ~(t >= l.m[name].Expiration \/ l.m[name].Owner = nodeID)
    THEN [leases |-> l, lease |-> l.m[name], err |-> ErrLeaseHeld]
    ELSE [leases |-> [l EXCEPT !.m = MapPut(@, name, [Name |-> name,
                                                       Expiration |-> t + l.d,
                                                       Owner |-> nodeID])],
          lease |-> [Name |-> name, Expiration |-> t + l.d, Owner |-> nodeID],
          err |-> NilErr]

\* Leases.Acquire(name, nodeID) at time t: the table left, the lease
\* returned and the error.
Acquire(l, name, nodeID, t) ==
    IF name \in DOMAIN l.m
    THEN IF t > l.m[name].Expiration \/ l.m[name].Owner = nodeID
         THEN [leases |-> [l EXCEPT !.m[name].Expiration = t + l.d,
                                    !.m[name].Owner = nodeID],
               lease |-> [l.m[name] EXCEPT !.Expiration = t + l.d, !.Owner = nodeID],
               err |-> NilErr]
         ELSE [leases |-> l, lease |-> l.m[name], err |-> ErrLeaseHeld]
    ELSE [leases |-> [l EXCEPT !.m = MapPut(@, name, [Name |-> name,
                                                       Expiration |-> t + l.d,
                                                       Owner |-> nodeID])],
          lease |-> [Name |-> name, Expiration |-> t + l.d, Owner |-> nodeID],
          err |-> NilErr]

\* A node asks for a lease; held keeps, for the node and the name, the
\* expiration of the lease last granted to the node.
AcquireStep ==
    \E name \in LeaseNames, nodeID \in 1 .. LeaseNodes :
        /\ leases' = Acquire(leases, name, nodeID, now).leases
        /\ held' = IF Acquire(leases, name, nodeID, now).err = NilErr
                   THEN MapPut(held, <<name, nodeID>>,
                               Acquire(leases, name, nodeID, now).lease.Expiration)
                   ELSE held
        /\ UNCHANGED <<data, now, writerVars, lockVars>>

\* Time passes.
Tick ==
    /\ now < NowBase + LeaseTicks
    /\ now' = now + 1
    /\ UNCHANGED <<data, writerVars, leaseVars, lockVars>>

InitLeases ==
    /\ data = EmptyData
    /\ now = NowBase
    /\ WriterIdle
    /\ LeasesIdle
    /\ LocksIdle

NextLeases ==
    \/ AcquireStep
    \/ Tick

SpecLeases == InitLeases /\ [][NextLeases]_vars

\* ------------------------------------------------------------------- C30
\* Node nodeID holds the lease name: the lease last granted to it has not
\* expired.
Holds(name, nodeID) ==
    <<name, nodeID>> \in DOMAIN held /\ ~(now > held[<<name, nodeID>>])

\* What the claim says Acquire answers in the present state.
AcquireAsClaimed(name, nodeID) ==
    IF \/ name \notin DOMAIN leases.m
       \/ now > leases.m[name].Expiration
       \/ leases.m[name].Owner = nodeID
    THEN /\ Acquire(leases, name, nodeID, now).err = NilErr
         /\ Acquire(leases, name, nodeID, now).lease =
                [Name |-> name, Expiration |-> now + leases.d, Owner |-> nodeID]
         /\ Acquire(leases, name, nodeID, now).leases.m[name] =
                [Name |-> name, Expiration |-> now + leases.d, Owner |-> nodeID]
         /\ \A other \in DOMAIN leases.m \ {name} :
                Acquire(leases, name, nodeID, now).leases.m[other] = leases.m[other]
    ELSE /\ Acquire(leases, name, nodeID, now).err = ErrLeaseHeld
         /\ Acquire(leases, name, nodeID, now).lease = leases.m[name]
         /\ Acquire(leases, name, nodeID, now).leases = leases

\* C30: Acquire succeeds exactly for a name with no lease, with an expired
\* lease or with a lease of the asking node, and then stores the node and
\* now + TTL; otherwise it returns the stored lease with an error and
\* changes nothing.  So two different nodes never hold an unexpired lease of
\* one name, and a holder that asks again before the expiration keeps the
\* lease.
C30_LeaseMutualExclusion ==
    /\ \A name \in LeaseNames, nodeID \in 1 .. LeaseNodes : AcquireAsClaimed(name, nodeID)
    /\ \A name \in LeaseNames, n1, n2 \in 1 .. LeaseNodes :
           (Holds(name, n1) /\ Holds(name, n2)) => n1 = n2
    /\ \A name \in LeaseNames, nodeID \in 1 .. LeaseNodes :
           Holds(name, nodeID) =>
               /\ leases.m[name].Owner = nodeID
               /\ leases.m[name].Expiration >= held[<<name, nodeID>>]
               /\ Acquire(leases, name, nodeID, now).err = NilErr
               /\ Acquire(leases, name, nodeID, now).lease.Expiration
                      >= held[<<name, nodeID>>]

\* Node 1 held a lease until it expired, node 2 holds it now at the last
\* instant before its expiration, and node 1 is refused.
C30_Witness ==
    /\ <<"monitor", 1>> \in DOMAIN held
    /\ now > held[<<"monitor", 1>>]
    /\ Holds("monitor", 2)
    /\ now = held[<<"monitor", 2>>]
    /\ Acquire(leases, "monitor", 1, now).err = ErrLeaseHeld

\* ----------------------------------------------------------------- SpecMap
\* MapShards in a cluster of one or two data nodes, so that a group has one
\* or two shards, with groups truncated and deleted between the requests.
\* Largest node ID allocated where the mapping of points is checked.
MapNodes == 2

\* Requests of one or two points, of two series, around the retention
\* horizon and the truncation time.
MapRequests ==
    {<<Point(t, h)>> : t \in PointTimes, h \in {0, 1}}
        \cup {<<Point(t1, h1), Point(t2, h2)>> :
                 t1 \in PointTimes, t2 \in PointTimes, h1 \in {0, 1}, h2 \in {0, 1}}

KCreateDataNode == data.MaxNodeID < MapNodes /\ CreateDataNodeStep({"a", "b"})
KMapShards == MapShardsStep(MapRequests)

NextMap ==
    \/ KCreateDataNode
    \/ WCreateDatabase
    \/ WCreateRetentionPolicy
    \/ WTruncateShardGroups
    \/ WDeleteShardGroup
    \/ KMapShards

SpecMap == Init /\ [][NextMap]_vars

\* ------------------------------------------------------------------- C31
\* The points of a request that the placing f sends to target x (a shard
\* ID, or 0 for Dropped), in the order of the request.
RECURSIVE Sent(_, _, _, _)
Sent(points, f, x, k) ==
    IF k > Len(points) THEN <<>>
    ELSE IF f[k] = x THEN <<points[k]>> \o Sent(points, f, x, k + 1)
    ELSE Sent(points, f, x, k + 1)

\* The shard group of d that has the shard.
GroupsOfShard(d, shardID) ==
    {g \in AllGroups(d) : \E i \in 1 .. Len(g.Shards) : g.Shards[i].ID = shardID}

\* Point p belongs to the shard: the group of the shard covers the time of
\* the point, and the shard is the one the hash of the point selects.
BelongsTo(d, p, shardID) ==
    \E g \in GroupsOfShard(d, shardID) :
        /\ g.StartTime <= p.Time
        /\ p.Time < g.EndTime
        /\ g.Shards[(p.HashID % Len(g.Shards)) + 1].ID = shardID

\* The mapping r of the points: some placing of every point of the request
\* on one shard or on Dropped gives the lists of the mapping, each in the
\* order of the request, and every point placed on a shard belongs to it.
WellMapped(points, r) ==
    \E f \in [1 .. Len(points) -> DOMAIN r.mapping.Points \cup {0}] :
        /\ \A s \in DOMAIN r.mapping.Points :
               /\ r.mapping.Points[s] = Sent(points, f, s, 1)
               /\ s \in DOMAIN r.mapping.Shards
               /\ r.mapping.Shards[s].ID = s
        /\ r.mapping.Dropped = Sent(points, f, 0, 1)
        /\ \A k \in 1 .. Len(points) : f[k] # 0 => BelongsTo(r.data, points[k], f[k])

\* C31: MapShards loses and duplicates no point: every point of the
\* request is once in the list of one shard or in Dropped; a mapped point
\* lies in [startTime, endTime) of the group of its shard, which is
\* shards[hashID mod len(shards)] of the group; the list of a shard keeps
\* the order of the request.
C31_MapShardsPartitionsPoints ==
    \A points \in MapRequests :
        MapShards(data, "db0", "rp0", points, now).err = NilErr =>
            WellMapped(points, MapShards(data, "db0", "rp0", points, now))

\* With two data nodes a request of two points of one series and of
\* different times is mapped to the second shard of a group, the later
\* point first.
C31_Witness ==
    /\ Len(data.DataNodes) = 2
    /\ \E points \in MapRequests :
           /\ Len(points) = 2
           /\ points[1].Time > points[2].Time
           /\ MapShards(data, "db0", "rp0", points, now).err = NilErr
           /\ \E s \in DOMAIN MapShards(data, "db0", "rp0", points, now).mapping.Points :
                  /\ MapShards(data, "db0", "rp0", points, now).mapping.Points[s] = points
                  /\ \E g \in GroupsOfShard(MapShards(data, "db0", "rp0", points, now).data, s) :
                         Len(g.Shards) = 2 /\ g.Shards[2].ID = s

\* ------------------------------------------------------------------- C32
\* The shards of group g that DeleteDataNode(id) finds without an owner once
\* id has relinquished them, by position and in the order of the group.
RECURSIVE OrphanedFrom(_, _, _)
OrphanedFrom(g, id, si) ==
    IF si > Len(g.Shards) THEN <<>>
    ELSE IF Len(StripOwner(g.Shards[si].Owners, id)) = 0
    THEN <<si>> \o OrphanedFrom(g, id, si + 1)
    ELSE OrphanedFrom(g, id, si + 1)

\* Group g is one whose orphans DeleteDataNode(id) gives to new owners.
Reassigned(g, id) ==
    /\ Len(g.Shards) > 0
    /\ Len(OrphanedFrom(g, id, 1)) > 0
    /\ Len(OrphanedFrom(g, id, 1)) < Len(g.Shards)

\* The number of shards of g each node of the set owns once id has
\* relinquished its shards.
SurvivorCounts(g, id, nodes) ==
    [n \in nodes |->
        Cardinality({si \in 1 .. Len(g.Shards) :
                        n \in Range(StripOwner(g.Shards[si].Owners, id))})]

\* From the k-th orphan on, the owner group h has for each orphan is the
\* only owner of the shard and a node of least count; the count of a node
\* grows with every orphan it is given.
RECURSIVE FewestEachTime(_, _, _, _)
FewestEachTime(h, orphans, counts, k) ==
    IF k > Len(orphans) THEN TRUE
    ELSE /\ Len(h.Shards[orphans[k]].Owners) = 1
         /\ h.Shards[orphans[k]].Owners[1] \in DOMAIN counts
         /\ \A m \in DOMAIN counts : counts[h.Shards[orphans[k]].Owners[1]] <= counts[m]
         /\ FewestEachTime(h, orphans,
                           [counts EXCEPT ![h.Shards[orphans[k]].Owners[1]] = @ + 1],
                           k + 1)

\* The IDs of the data nodes of d.
DataNodeIDs(d) == {d.DataNodes[i].ID : i \in 1 .. Len(d.DataNodes)}

\* The nodes that own a shard of g once id has relinquished its shards.
OwnersLeft(g, id) ==
    UNION {Range(StripOwner(g.Shards[si].Owners, id)) : si \in 1 .. Len(g.Shards)}

\* C32: the new owner DeleteDataNode gives an orphaned shard is a surviving
\* data node that owns, the owners given earlier in the call counted, the
\* fewest shards of the group among all surviving data nodes, those that
\* own no shard of the group included.
C32_NewOwnerOwnsFewest ==
    \A id \in DataNodeIDs(data) : \A r \in DeleteDataNode(data, id, now) :
        r.err = NilErr =>
            \A p \in GroupPaths(data) :
                Reassigned(GroupAt(data, p), id) =>
                    FewestEachTime(GroupAt(r.data, p),
                                   OrphanedFrom(GroupAt(data, p), id, 1),
                                   SurvivorCounts(GroupAt(data, p), id, DataNodeIDs(r.data)),
                                   1)

\* What the code does: the new owner owns the fewest shards among the
\* nodes that own a shard of the group.
C32_FewestAmongOwners ==
    \A id \in DataNodeIDs(data) : \A r \in DeleteDataNode(data, id, now) :
        r.err = NilErr =>
            \A p \in GroupPaths(data) :
                Reassigned(GroupAt(data, p), id) =>
                    FewestEachTime(GroupAt(r.data, p),
                                   OrphanedFrom(GroupAt(data, p), id, 1),
                                   SurvivorCounts(GroupAt(data, p), id,
                                                  OwnersLeft(GroupAt(data, p), id)),
                                   1)

\* ------------------------------------------------------------------- C33
\* C33: a mutator applied with the same arguments and the same clock
\* reading to equal Data values leaves equal Data values and returns equal
\* results; DeleteDataNode in particular, which among several nodes of the
\* same least count always picks the same new owner.
C33_DeleteDataNodeDeterministic ==
    \A id \in DataNodeIDs(data) :
        \A r1 \in DeleteDataNode(data, id, now), r2 \in DeleteDataNode(data, id, now) :
            r1 = r2

\* ---------------------------------------------------------------- SpecLock
\* The operations of the writer that use subPoints and closing, as the
\* steps each takes on the lock and on the two fields, run by goroutines
\* that interleave at every step.
Step(kind, field) == [kind |-> kind, field |-> field]

\* Open: lock, w.closing = make(chan), deferred unlock.
OpenSteps ==
    <<Step("Lock", "mu"), Step("write", "closing"), Step("Unlock", "mu")>>

\* Close: lock, w.closing != nil, w.subPoints != nil, w.subPoints = nil,
\* deferred unlock.
CloseSteps ==
    <<Step("Lock", "mu"), Step("read", "closing"), Step("read", "subPoints"),
      Step("write", "subPoints"), Step("Unlock", "mu")>>

\* AddWriteSubscriber: w.subPoints = append(w.subPoints, c).
AddWriteSubscriberSteps ==
    <<Step("read", "subPoints"), Step("write", "subPoints")>>

\* WritePoints: the loop over w.subPoints under the read lock, then the
\* select on w.closing.
WritePointsSteps ==
    <<Step("RLock", "mu"), Step("read", "subPoints"), Step("RUnlock", "mu"),
      Step("read", "closing")>>

\* The goroutine of a shard: the select on w.closing.
WriteToShardSteps == <<Step("read", "closing")>>

Steps(op) ==
    CASE op = "Open" -> OpenSteps
      [] op = "Close" -> CloseSteps
      [] op = "AddWriteSubscriber" -> AddWriteSubscriberSteps
      [] op = "WritePoints" -> WritePointsSteps
      [] op = "writeToShard" -> WriteToShardSteps
      [] OTHER -> <<>>

\* The step goroutine t takes next; None when it runs no operation.
NextStep(t) ==
    IF threads[t].op = "idle" THEN None
    ELSE Some(Steps(threads[t].op)[threads[t].pc])

\* Goroutine t can take a step of the kind: Lock waits for the lock to be
\* free, RLock for no writer to hold it.
CanTake(t, kind) ==
    CASE kind = "Lock" -> mu.writer = None /\ mu.readers = {}
      [] kind = "RLock" -> mu.writer = None
      [] OTHER -> TRUE

\* The lock after goroutine t took a step of the kind.
LockAfter(t, kind) ==
    CASE kind = "Lock" -> [mu EXCEPT !.writer = Some(t)]
      [] kind = "Unlock" -> [mu EXCEPT !.writer = None]
      [] kind = "RLock" -> [mu EXCEPT !.readers = @ \cup {t}]
      [] kind = "RUnlock" -> [mu EXCEPT !.readers = @ \ {t}]
      [] OTHER -> mu

\* Goroutine t starts the operation, or takes the next step of it and
\* returns after the last.
Runs(t, op) ==
    /\ \/ /\ threads[t].op = "idle"
          /\ threads' = [threads EXCEPT ![t] = [op |-> op, pc |-> 1]]
          /\ UNCHANGED mu
       \/ /\ threads[t].op = op
          /\ CanTake(t, Steps(op)[threads[t].pc].kind)
          /\ mu' = LockAfter(t, Steps(op)[threads[t].pc].kind)
          /\ threads' = [threads EXCEPT ![t] =
                            IF threads[t].pc = Len(Steps(op))
                            THEN [op |-> "idle", pc |-> 0]
                            ELSE [op |-> op, pc |-> threads[t].pc + 1]]
    /\ UNCHANGED <<data, now, writerVars, leaseVars>>

OpenRuns == \E t \in DOMAIN threads : Runs(t, "Open")
CloseRuns == \E t \in DOMAIN threads : Runs(t, "Close")
AddWriteSubscriberRuns == \E t \in DOMAIN threads : Runs(t, "AddWriteSubscriber")
WritePointsRuns == \E t \in DOMAIN threads : Runs(t, "WritePoints")
WriteToShardRuns == \E t \in DOMAIN threads : Runs(t, "writeToShard")

NextLock ==
    \/ OpenRuns
    \/ CloseRuns
    \/ AddWriteSubscriberRuns
    \/ WritePointsRuns
    \/ WriteToShardRuns

SpecLock == Init /\ [][NextLock]_vars

\* ------------------------------------------------------------------- C34
\* Goroutine t is about to read or write the field.
Accesses(t, kind, field) ==
    /\ NextStep(t) # None
    /\ NextStep(t)[1].kind = kind
    /\ NextStep(t)[1].field = field

\* Goroutine t holds the lock for writing, or for reading at least.
HoldsLock(t) == mu.writer = Some(t)
HoldsRLock(t) == mu.writer = Some(t) \/ t \in mu.readers

\* The lock excludes what it should: one writer, or readers only.
MutualExclusion ==
    /\ mu.writer # None => mu.readers = {}
    /\ \A t \in DOMAIN threads :
           (NextStep(t) # None /\ NextStep(t)[1].kind = "Unlock") => HoldsLock(t)

\* C34: every read and every write of subPoints and of closing is made
\* holding the lock of the writer, the write lock for a write and the read
\* lock at least for a read, so that no goroutine writes a field while
\* another reads or writes it.
C34_FieldsAccessedUnderLock ==
    /\ MutualExclusion
    /\ \A t \in DOMAIN threads, field \in {"subPoints", "closing"} :
           /\ Accesses(t, "write", field) => HoldsLock(t)
           /\ Accesses(t, "read", field) => HoldsRLock(t)
    /\ \A t1, t2 \in DOMAIN threads, field \in {"subPoints", "closing"} :
           (t1 # t2 /\ Accesses(t1, "write", field)) =>
               ~(Accesses(t2, "write", field) \/ Accesses(t2, "read", field))

\* Two goroutines are about to access a field, one of them to write it,
\* and nothing orders the two accesses.
RaceOn(field) ==
    \E t1, t2 \in DOMAIN threads :
        /\ t1 # t2
        /\ Accesses(t1, "write", field)
        /\ Accesses(t2, "write", field) \/ Accesses(t2, "read", field)

\* The accesses of the operations that take the lock do not race with each
\* other.
LockedOps == {"Open", "Close"}
LockedOpsDoNotRace ==
    \A t1, t2 \in DOMAIN threads, field \in {"subPoints", "closing"} :
        (/\ t1 # t2
         /\ threads[t1].op \in LockedOps
         /\ threads[t2].op \in LockedOps \/ (threads[t2].op = "WritePoints"
                                               /\ field = "subPoints")
         /\ Accesses(t1, "write", field)) =>
            ~(Accesses(t2, "write", field) \/ Accesses(t2, "read", field))

\* ------------------------------------------------------------------- C35
\* Group a does not come after group b by (effective end, start time).
NotAfter(a, b) ==
    \/ EffEnd(a) < EffEnd(b)
    \/ EffEnd(a) = EffEnd(b) /\ a.StartTime <= b.StartTime

\* C35: the shard groups of every retention policy, the tombstoned ones
\* included, are stored in the order of (effective end, start time), the
\* effective end being truncatedAt for a truncated group and endTime for
\* any other.
C35_GroupsStoredSorted ==
    \A rp \in Policies(data) :
        \A k \in 1 .. Len(rp.ShardGroups) - 1 :
            NotAfter(rp.ShardGroups[k], rp.ShardGroups[k + 1])

\* The same order for the groups that are not tombstoned, taken in the
\* order they are stored in.
C35_LiveGroupsStoredSorted ==
    \A rp \in Policies(data) :
        \A k, l \in 1 .. Len(rp.ShardGroups) :
            (k < l /\ ~Deleted(rp.ShardGroups[k]) /\ ~Deleted(rp.ShardGroups[l])) =>
                NotAfter(rp.ShardGroups[k], rp.ShardGroups[l])

\* ------------------------------------------ owners as a set (SpecOwnerSet)
\* The mutators of SpecShared together with the two that edit one shard's
\* owner list.
TCopyShardOwner == CopyShardOwnerStep(NodeIDs)
TRemoveShardOwner == RemoveShardOwnerStep(NodeIDs)

NextOwnerSet ==
    \/ SCreateMetaNode
    \/ SSetMetaNode
    \/ SCreateDataNode
    \/ SDeleteDataNode
    \/ SCreateDatabase
    \/ SCreateRetentionPolicy
    \/ SCreateShardGroup
    \/ TCopyShardOwner
    \/ TRemoveShardOwner

SpecOwnerSet == Init /\ [][NextOwnerSet]_vars

\* No node ID twice in an owner list.
OwnersDistinct(owners) ==
    \A i, j \in 1 .. Len(owners) : owners[i] = owners[j] => i = j

AllShardIDs(d) ==
    UNION {{g.Shards[i].ID : i \in 1 .. Len(g.Shards)} : g \in AllGroups(d)}

\* CopyShardOwner applied twice stores what it stores applied once.
CopyTwiceIsCopyOnce ==
    \A id \in AllShardIDs(data) : \A n \in NodeIDs :
        LET once == CopyShardOwner(data, id, n).data
        IN CopyShardOwner(once, id, n).data = once

\* C36: a shard's owners form a set: no owner list of any shard holds the
\* same node ID twice, and CopyShardOwner(shard, n) applied twice gives the
\* owner list it gives applied once.  The code breaks the first half when
\* two data nodes carry the same ID (C8): CreateShardGroup then deals that
\* ID twice to one shard.
C36_OwnersFormASet ==
    /\ \A g \in AllGroups(data) :
         \A i \in 1 .. Len(g.Shards) : OwnersDistinct(g.Shards[i].Owners)
    /\ CopyTwiceIsCopyOnce

\* The owners are distinct as long as the data nodes' IDs are.
C36_DistinctWhileIDsUnique ==
    UniqueIDs(data.DataNodes) =>
        \A g \in AllGroups(data) :
            \A i \in 1 .. Len(g.Shards) : OwnersDistinct(g.Shards[i].Owners)

\* -------------------------------------- the default policy (SpecDefault)
\* DatabaseInfo.RetentionPolicy: the index of the policy a name resolves to,
\* the empty name standing for the database's default; 0 for nil.
RetentionPolicy(di, name) ==
    IF name = "" /\ di.DefaultRetentionPolicy = "" THEN 0
    ELSE PolicyIndex(di, IF name = "" THEN di.DefaultRetentionPolicy ELSE name)

DefaultNames == {"rp0", "rp1"}

VCreateDatabase == CreateDatabaseStep(DBNames)
VCreateRetentionPolicy ==
    CreateRetentionPolicyStep(
        {Policy(name, replicaN, 0, Hour) : name \in DefaultNames, replicaN \in {1, 2}},
        BOOLEAN)
VUpdateRetentionPolicy ==
    UpdateNamedRetentionPolicyStep(
        DefaultNames,
        {Update(name, None, None, None) : name \in {None} \cup {Some(n) : n \in DefaultNames}},
        BOOLEAN)
VDropRetentionPolicy == DropRetentionPolicyStep(DefaultNames)
VImportData == ImportDataStep({data}, {"db0"}, {"db1"}, {"", "rp0", "rp1"}, {"", "rp1"})

NextDefault ==
    \/ VCreateDatabase
    \/ VCreateRetentionPolicy
    \/ VUpdateRetentionPolicy
    \/ VDropRetentionPolicy
    \/ VImportData

SpecDefault == Init /\ [][NextDefault]_vars

\* C37: a database's non-empty default retention policy name names a policy
\* of that database, so the empty policy name of a write resolves to a
\* policy whenever the database has a default.  The code breaks it:
\* DropRetentionPolicy removes the default policy and leaves the name, and
\* a rename without makeDefault leaves the old name as the default.
C37_DefaultNamesAPolicy ==
    \A i \in 1 .. Len(data.Databases) :
        LET di == data.Databases[i]
        IN di.DefaultRetentionPolicy # "" =>
              /\ PolicyIndex(di, di.DefaultRetentionPolicy) # 0
              /\ RetentionPolicy(di, "") # 0

\* The default survives the mutators other than DropRetentionPolicy and a
\* rename: reachable states where a rename alone has broken it, and where a
\* drop alone has.
DanglingDefault(d) ==
    \E i \in 1 .. Len(d.Databases) :
        /\ d.Databases[i].DefaultRetentionPolicy # ""
        /\ RetentionPolicy(d.Databases[i], "") = 0

C37_DropBreaksDefault ==
    /\ ~DanglingDefault(data)
    /\ \E name \in DefaultNames : DanglingDefault(DropRetentionPolicy(data, "db0", name).data)

C37_RenameBreaksDefault ==
    /\ ~DanglingDefault(data)
    /\ \E name, to \in DefaultNames :
          LET r == UpdateRetentionPolicy(data, "db0", name, Update(Some(to), None, None, None), FALSE)
          IN r.err = NilErr /\ DanglingDefault(r.data)

\* ------------------------------------------ result channels (SpecChannels)
\* One call of WritePoints on a cluster of two data nodes, for one shard
\* with two owners or two shards with one owner each, with the timers of
\* the shards and of the call running and the writer closed at any moment.
InitChannels ==
    /\ \E replicaN \in {1, 2} : data = Cluster(2, replicaN, 0)
    /\ now = NowBase
    /\ pw = NewPointsWriter
    /\ panicked = FALSE
    /\ localNodeID = 1
    /\ subs = [c \in SubChans |-> 0]
    /\ calls = <<>>
    /\ shardTasks = <<>>
    /\ ownerTasks = <<>>
    /\ \E owners \in SUBSET {2} : hh = QueuedFor(owners)
    /\ delivered = <<>>
    /\ LeasesIdle
    /\ LocksIdle

HWritePoints ==
    /\ calls = <<>>
    /\ WritePointsStep({"db0"}, {"rp0"}, {"one", "all"},
                       {<<Point(NowBase, 0)>>, <<Point(NowBase, 0), Point(NowBase, 1)>>})
HClose == pw.closing = "open" /\ Close

NextChannels ==
    \/ HWritePoints
    \/ Broadcasts
    \/ OwnerWritesLocal
    \/ OwnerChecksQueue
    \/ OwnerQueues
    \/ OwnerWritesRemote
    \/ OwnerHandsOff
    \/ ShardTimerFires
    \/ ShardSeesClosing
    \/ ShardTimesOut
    \/ ShardReceives
    \/ ShardReturns
    \/ CallTimerFires
    \/ CallSeesClosing
    \/ CallTimesOut
    \/ CallReceives
    \/ CallReturns
    \/ HClose

SpecChannels == InitChannels /\ [][NextChannels]_vars

\* The calls that started their shards' goroutines.
MappedCalls == {c \in DOMAIN calls : calls[c].timer # "idle" \/ calls[c].pc = "broadcast"}

\* The results in the buffer of a channel are results of goroutines that
\* have ended, one each, and never outnumber the capacity of the channel:
\* no send has found the buffer full.
ShardChanHasRoom(k) ==
    /\ Len(shardTasks[k].ch) <= Cardinality(OwnersDone(k))
    /\ Len(shardTasks[k].ch) + shardTasks[k].received <= ShardChanCap(shardTasks[k])

CallChanHasRoom(c) ==
    /\ Len(calls[c].ch) <= Cardinality(Arrived(c))
    /\ Len(calls[c].ch) + calls[c].received <= CallChanCap(calls[c])

\* C38: no write task waits forever to report its result: the channel of a
\* shard's write has room for the result of every owner and the channel of
\* a call has room for the result of every shard, so every send completes
\* with no receiver, in every interleaving and also once the collector has
\* returned because the required number was reached, a shard failed, the
\* timer fired or the writer was closed.
C38_SendsNeverBlock ==
    /\ \A k \in DOMAIN shardTasks : ShardChanHasRoom(k)
    /\ \A c \in MappedCalls : CallChanHasRoom(c)

\* An owner goroutine ends, and so sends, after the write of its shard has
\* returned; a shard goroutine ends after its call has returned.
OwnerSendsLate ==
    \E k \in DOMAIN shardTasks :
        /\ shardTasks[k].pc = "done"
        /\ \E i \in 1 .. Len(shardTasks[k].shard.Owners) :
              /\ ownerTasks[<<k[1], k[2], i>>].pc # "done"
              /\ ownerTasks'[<<k[1], k[2], i>>].pc = "done"

ShardSendsLate ==
    \E k \in DOMAIN shardTasks :
        /\ calls[k[1]].pc = "done"
        /\ shardTasks[k].pc # "done"
        /\ shardTasks'[k].pc = "done"

NoOwnerSendsLate == [][~OwnerSendsLate]_vars
NoShardSendsLate == [][~ShardSendsLate]_vars

\* Both owners of a shard have sent and the write of the shard returned on
\* its timer or on closing without taking a result, and both shards of a
\* call have sent and the call returned without taking a result.
C38_Witness ==
    /\ \E k \in DOMAIN shardTasks :
          /\ shardTasks[k].pc = "done"
          /\ shardTasks[k].ret \in {ErrTimeout, ErrWriteFailed}
          /\ shardTasks[k].received = 0
          /\ Len(shardTasks[k].ch) = 2
    /\ \E c \in MappedCalls :
          /\ calls[c].pc = "done"
          /\ calls[c].ret \in {ErrTimeout, ErrWriteFailed}
          /\ Len(calls[c].ch) >= 1

\* ------------------------------------------- tombstones (SpecTombstone)
\* The mutators that touch a shard group, on a cluster of up to two data
\* nodes with one policy, while the clock advances.
ZCreateDataNode == data.MaxNodeID < 2 /\ CreateDataNodeStep({"a", "b"})
ZDeleteDataNode == DeleteDataNodeStep({1, 2})
ZCreateDatabase == CreateDatabaseStep(DBNames)
ZCreateRetentionPolicy ==
    CreateRetentionPolicyStep({Policy("rp0", 1, 0, Hour)}, {FALSE})
ZCreateShardGroup ==
    data.MaxShardGroupID < OwnerGroups /\ CreateShardGroupStep({TimeBase, TimeBase + Hour})
ZDeleteShardGroup == DeleteShardGroupStep(GroupIDs)
ZTruncateShardGroups == TruncateShardGroupsStep({TimeBase})
ZDropShard == DropShardStep
ZRemoveShardOwner == RemoveShardOwnerStep({1, 2})

NextTombstone ==
    \/ ZCreateDataNode
    \/ ZDeleteDataNode
    \/ ZCreateDatabase
    \/ ZCreateRetentionPolicy
    \/ ZCreateShardGroup
    \/ ZDeleteShardGroup
    \/ ZTruncateShardGroups
    \/ ZDropShard
    \/ ZRemoveShardOwner
    \/ Tick

SpecTombstone == Init /\ [][NextTombstone]_vars

\* The tombstone of the group of the given ID in a Data value, ZeroTime
\* for a group that is not there or not deleted.
DeletedAtOf(d, id) ==
    IF \E g \in AllGroups(d) : g.ID = id
    THEN (CHOOSE g \in AllGroups(d) : g.ID = id).DeletedAt
    ELSE ZeroTime

\* C39: a shard group that is tombstoned stays tombstoned and keeps its
\* deletedAt under every later mutator.  The code breaks it: DeleteShardGroup
\* stamps a group that is already deleted again, and so do DeleteDataNode
\* and the removal of the last shard of a deleted group.
C39_TombstoneIsFinal ==
    [][\A g \in AllGroups(data) :
          g.DeletedAt # ZeroTime => DeletedAtOf(data', g.ID) = g.DeletedAt]_vars

\* The same for each mutator on its own: the step at a later time that
\* changes the tombstone of a deleted group.
Restamps(d2) ==
    \E g \in AllGroups(data) :
        /\ g.DeletedAt # ZeroTime
        /\ g.DeletedAt < now
        /\ DeletedAtOf(d2, g.ID) # g.DeletedAt

DeleteShardGroupRestamps ==
    \E id \in GroupIDs : Restamps(DeleteShardGroup(data, "db0", "rp0", id, now).data)
DeleteDataNodeRestamps ==
    \E id \in {1, 2} : \E r \in DeleteDataNode(data, id, now) : Restamps(r.data)
DropShardRestamps ==
    \E id \in 1 .. data.MaxShardID : Restamps(DropShard(data, id, now).data)
RemoveShardOwnerRestamps ==
    \E id \in 1 .. data.MaxShardID, n \in {1, 2} :
        Restamps(RemoveShardOwner(data, id, n, now).data)
TruncateRestamps == Restamps(TruncateShardGroups(data, TimeBase).data)
CreateShardGroupRestamps ==
    \E t \in {TimeBase, TimeBase + Hour} :
        Restamps(CreateShardGroup(data, "db0", "rp0", t).data)

\* ------------------------------------------- orphaned shards (SpecOrphan)
\* A backup is imported, which clears the owners of its shard; the shard
\* may get the writer's node as an owner again; one call of WritePoints
\* writes a point of that shard at every consistency level.
EImportData == ImportDataStep({Backup}, {"db1"}, {""}, {""}, {""})
ECopyShardOwner == CopyShardOwnerStep({1})
EWritePoints ==
    /\ calls = <<>>
    /\ WritePointsStep({"db1"}, {"rp0"}, ConsistencyLevels, {<<Point(NowBase, 0)>>})

NextOrphan ==
    \/ EImportData
    \/ ECopyShardOwner
    \/ EWritePoints
    \/ Broadcasts
    \/ OwnerWritesLocal
    \/ ShardTimerFires
    \/ ShardTimesOut
    \/ ShardReceives
    \/ ShardReturns
    \/ CallTimerFires
    \/ CallTimesOut
    \/ CallReceives
    \/ CallReturns

SpecOrphan == Init /\ [][NextOrphan]_vars

\* The writes of shards that have no owner.
OrphanWrites == {k \in DOMAIN shardTasks : Len(shardTasks[k].shard.Owners) = 0}

\* C40: the write of a shard with an empty owner list never succeeds: at
\* every consistency level, all included where the required number is 0,
\* it starts no owner goroutine and returns ErrWriteFailed, and WriteOK is
\* not incremented.
C40_OrphanWriteFails ==
    \A k \in OrphanWrites :
        /\ \A o \in DOMAIN ownerTasks : <<o[1], o[2]>> # k
        /\ shardTasks[k].wrote = 0
        /\ shardTasks[k].received = 0
        /\ pw.stats.WriteOK = 0
        /\ shardTasks[k].pc = "done" => shardTasks[k].ret = ErrWriteFailed
        /\ Returned(shardTasks[k]) = ErrWriteFailed

\* The write of the orphaned shard at the level all has returned, and the
\* call with it.
C40_Witness ==
    \E k \in OrphanWrites :
        /\ shardTasks[k].consistency = "all"
        /\ Required(Len(shardTasks[k].shard.Owners), "all") = 0
        /\ shardTasks[k].pc = "done"
        /\ calls[k[1]].pc = "done"
        /\ calls[k[1]].ret = ErrWriteFailed

====
